---- MODULE Spec2Model ----
(***************************************************************************)
(* cloudconduit: the configuration resolution engine (ConfigManager), the  *)
(* keychain credential store (ConfigManager / CredentialManager) and the   *)
(* per-backend aggregators, as a state machine.                            *)
(*                                                                         *)
(* State: the host (is_macos), the process environment, the keychain, the  *)
(* defaults document on disk, the ConfigManager's cached copy of it, and   *)
(* the last call made with its arguments and its outcome; then whether the *)
(* keyring backend fails on reads, the warnings printed so far, the caches *)
(* of the other ConfigManager instances alive, the connector in use and    *)
(* the number of vendor connections attempted.                             *)
(***************************************************************************)
EXTENDS Naturals, Sequences, FiniteSets, TLC

VARIABLES is_macos, env, keychain, file, default_config, last,
          keyring_raises, warnings, others, connector, vendor_connects,
          closes, conduit, with_entered

\* What the resolution engine's own calls never touch.
surroundings == <<keyring_raises, warnings, others, connector, vendor_connects,
                  closes, conduit, with_entered>>

vars == <<is_macos, env, keychain, file, default_config, last, surroundings>>

\* The caller is outside every with statement on the connector.
NotEntered == <<>>

(* ---------------------------------------------------------------- bounds *)

\* How many distinct non-empty values each source draws from.
MaxValues == 1

\* How many warnings are printed before the loaders are left alone.
MaxWarnings == 2

\* How many ConfigManager instances are alive at once.
MaxInstances == 2

\* How many vendor connections are attempted.
MaxConnects == 2

\* How many rows an uploaded DataFrame has at most, and the largest
\* batch_size.
MaxRows == 3
MaxBatch == 2

(* ------------------------------------------------------- Python values *)

\* Python's None, as the value of an Optional[str]; no string of the model.
None == "<None>"

\* An Optional[Dict]: <<>> is None, <<d>> is the dict d.
NoDict == <<>>
Some(d) == <<d>>

\* The empty dict {}.
EmptyDict == <<>>

\* How a call ends: it returns a value or raises an exception.
Return(v) == [kind |-> "return", value |-> v]
Raise(e) == [kind |-> "raise", value |-> e]

\* Mutant: "is not None" in place of truthiness.
Truthy_is_not_none(v) == v # None

\* bool(v) of an Optional[str]: None and "" are falsy.
Truthy(v) == v # None /\ v # ""

\* str.upper() and str.lower() on the strings of the model, row by row.
UpperTable ==
    ("snowflake" :> "SNOWFLAKE") @@ ("account" :> "ACCOUNT") @@
    ("warehouse" :> "WAREHOUSE") @@ ("database" :> "DATABASE") @@
    ("schema" :> "SCHEMA") @@ ("user" :> "USER") @@
    ("password" :> "PASSWORD") @@ ("private_key_path" :> "PRIVATE_KEY_PATH") @@
    ("private_key_passphrase" :> "PRIVATE_KEY_PASSPHRASE") @@ ("authenticator" :> "AUTHENTICATOR") @@
    ("databricks" :> "DATABRICKS") @@ ("server_hostname" :> "SERVER_HOSTNAME") @@
    ("http_path" :> "HTTP_PATH") @@ ("access_token" :> "ACCESS_TOKEN") @@
    ("catalog" :> "CATALOG") @@ ("s3" :> "S3") @@
    ("aws_access_key_id" :> "AWS_ACCESS_KEY_ID") @@ ("aws_secret_access_key" :> "AWS_SECRET_ACCESS_KEY") @@
    ("aws_session_token" :> "AWS_SESSION_TOKEN") @@ ("region_name" :> "REGION_NAME") @@
    ("role" :> "ROLE") @@ ("gcs" :> "GCS") @@
    ("bucket" :> "BUCKET") @@
    ("SNOWFLAKE_ACCOUNT" :> "SNOWFLAKE_ACCOUNT") @@
    ("snowflake_account" :> "SNOWFLAKE_ACCOUNT") @@
    ("Snowflake_Account" :> "SNOWFLAKE_ACCOUNT") @@
    ("SNOWFLAKE_WAREHOUSE" :> "SNOWFLAKE_WAREHOUSE") @@
    ("snowflake_warehouse" :> "SNOWFLAKE_WAREHOUSE") @@
    ("Snowflake_Warehouse" :> "SNOWFLAKE_WAREHOUSE") @@
    ("SNOWFLAKE_DATABASE" :> "SNOWFLAKE_DATABASE") @@
    ("snowflake_database" :> "SNOWFLAKE_DATABASE") @@
    ("Snowflake_Database" :> "SNOWFLAKE_DATABASE") @@
    ("SNOWFLAKE_SCHEMA" :> "SNOWFLAKE_SCHEMA") @@
    ("snowflake_schema" :> "SNOWFLAKE_SCHEMA") @@
    ("Snowflake_Schema" :> "SNOWFLAKE_SCHEMA") @@
    ("SNOWFLAKE_USER" :> "SNOWFLAKE_USER") @@
    ("snowflake_user" :> "SNOWFLAKE_USER") @@
    ("Snowflake_User" :> "SNOWFLAKE_USER") @@
    ("SNOWFLAKE_PASSWORD" :> "SNOWFLAKE_PASSWORD") @@
    ("snowflake_password" :> "SNOWFLAKE_PASSWORD") @@
    ("Snowflake_Password" :> "SNOWFLAKE_PASSWORD") @@
    ("SNOWFLAKE_PRIVATE_KEY_PATH" :> "SNOWFLAKE_PRIVATE_KEY_PATH") @@
    ("snowflake_private_key_path" :> "SNOWFLAKE_PRIVATE_KEY_PATH") @@
    ("Snowflake_Private_Key_Path" :> "SNOWFLAKE_PRIVATE_KEY_PATH") @@
    ("SNOWFLAKE_PRIVATE_KEY_PASSPHRASE" :> "SNOWFLAKE_PRIVATE_KEY_PASSPHRASE") @@
    ("snowflake_private_key_passphrase" :> "SNOWFLAKE_PRIVATE_KEY_PASSPHRASE") @@
    ("Snowflake_Private_Key_Passphrase" :> "SNOWFLAKE_PRIVATE_KEY_PASSPHRASE") @@
    ("SNOWFLAKE_AUTHENTICATOR" :> "SNOWFLAKE_AUTHENTICATOR") @@
    ("snowflake_authenticator" :> "SNOWFLAKE_AUTHENTICATOR") @@
    ("Snowflake_Authenticator" :> "SNOWFLAKE_AUTHENTICATOR") @@
    ("DATABRICKS_SERVER_HOSTNAME" :> "DATABRICKS_SERVER_HOSTNAME") @@
    ("databricks_server_hostname" :> "DATABRICKS_SERVER_HOSTNAME") @@
    ("Databricks_Server_Hostname" :> "DATABRICKS_SERVER_HOSTNAME") @@
    ("DATABRICKS_HTTP_PATH" :> "DATABRICKS_HTTP_PATH") @@
    ("databricks_http_path" :> "DATABRICKS_HTTP_PATH") @@
    ("Databricks_Http_Path" :> "DATABRICKS_HTTP_PATH") @@
    ("DATABRICKS_ACCESS_TOKEN" :> "DATABRICKS_ACCESS_TOKEN") @@
    ("databricks_access_token" :> "DATABRICKS_ACCESS_TOKEN") @@
    ("Databricks_Access_Token" :> "DATABRICKS_ACCESS_TOKEN") @@
    ("DATABRICKS_CATALOG" :> "DATABRICKS_CATALOG") @@
    ("databricks_catalog" :> "DATABRICKS_CATALOG") @@
    ("Databricks_Catalog" :> "DATABRICKS_CATALOG") @@
    ("DATABRICKS_SCHEMA" :> "DATABRICKS_SCHEMA") @@
    ("databricks_schema" :> "DATABRICKS_SCHEMA") @@
    ("Databricks_Schema" :> "DATABRICKS_SCHEMA") @@
    ("AWS_ACCESS_KEY_ID" :> "AWS_ACCESS_KEY_ID") @@
    ("aws_access_key_id" :> "AWS_ACCESS_KEY_ID") @@
    ("Aws_Access_Key_Id" :> "AWS_ACCESS_KEY_ID") @@
    ("AWS_SECRET_ACCESS_KEY" :> "AWS_SECRET_ACCESS_KEY") @@
    ("aws_secret_access_key" :> "AWS_SECRET_ACCESS_KEY") @@
    ("Aws_Secret_Access_Key" :> "AWS_SECRET_ACCESS_KEY") @@
    ("AWS_SESSION_TOKEN" :> "AWS_SESSION_TOKEN") @@
    ("aws_session_token" :> "AWS_SESSION_TOKEN") @@
    ("Aws_Session_Token" :> "AWS_SESSION_TOKEN") @@
    ("AWS_DEFAULT_REGION" :> "AWS_DEFAULT_REGION") @@
    ("aws_default_region" :> "AWS_DEFAULT_REGION") @@
    ("Aws_Default_Region" :> "AWS_DEFAULT_REGION") @@
    ("SNOWFLAKE_ROLE" :> "SNOWFLAKE_ROLE") @@
    ("snowflake_role" :> "SNOWFLAKE_ROLE") @@
    ("Snowflake_Role" :> "SNOWFLAKE_ROLE") @@
    ("GCS_BUCKET" :> "GCS_BUCKET") @@
    ("gcs_bucket" :> "GCS_BUCKET") @@
    ("Gcs_Bucket" :> "GCS_BUCKET")

Upper(s) == UpperTable[s]

LowerTable ==
    ("SNOWFLAKE_ACCOUNT" :> "snowflake_account") @@
    ("snowflake_account" :> "snowflake_account") @@
    ("Snowflake_Account" :> "snowflake_account") @@
    ("SNOWFLAKE_WAREHOUSE" :> "snowflake_warehouse") @@
    ("snowflake_warehouse" :> "snowflake_warehouse") @@
    ("Snowflake_Warehouse" :> "snowflake_warehouse") @@
    ("SNOWFLAKE_DATABASE" :> "snowflake_database") @@
    ("snowflake_database" :> "snowflake_database") @@
    ("Snowflake_Database" :> "snowflake_database") @@
    ("SNOWFLAKE_SCHEMA" :> "snowflake_schema") @@
    ("snowflake_schema" :> "snowflake_schema") @@
    ("Snowflake_Schema" :> "snowflake_schema") @@
    ("SNOWFLAKE_USER" :> "snowflake_user") @@
    ("snowflake_user" :> "snowflake_user") @@
    ("Snowflake_User" :> "snowflake_user") @@
    ("SNOWFLAKE_PASSWORD" :> "snowflake_password") @@
    ("snowflake_password" :> "snowflake_password") @@
    ("Snowflake_Password" :> "snowflake_password") @@
    ("SNOWFLAKE_PRIVATE_KEY_PATH" :> "snowflake_private_key_path") @@
    ("snowflake_private_key_path" :> "snowflake_private_key_path") @@
    ("Snowflake_Private_Key_Path" :> "snowflake_private_key_path") @@
    ("SNOWFLAKE_PRIVATE_KEY_PASSPHRASE" :> "snowflake_private_key_passphrase") @@
    ("snowflake_private_key_passphrase" :> "snowflake_private_key_passphrase") @@
    ("Snowflake_Private_Key_Passphrase" :> "snowflake_private_key_passphrase") @@
    ("SNOWFLAKE_AUTHENTICATOR" :> "snowflake_authenticator") @@
    ("snowflake_authenticator" :> "snowflake_authenticator") @@
    ("Snowflake_Authenticator" :> "snowflake_authenticator") @@
    ("DATABRICKS_SERVER_HOSTNAME" :> "databricks_server_hostname") @@
    ("databricks_server_hostname" :> "databricks_server_hostname") @@
    ("Databricks_Server_Hostname" :> "databricks_server_hostname") @@
    ("DATABRICKS_HTTP_PATH" :> "databricks_http_path") @@
    ("databricks_http_path" :> "databricks_http_path") @@
    ("Databricks_Http_Path" :> "databricks_http_path") @@
    ("DATABRICKS_ACCESS_TOKEN" :> "databricks_access_token") @@
    ("databricks_access_token" :> "databricks_access_token") @@
    ("Databricks_Access_Token" :> "databricks_access_token") @@
    ("DATABRICKS_CATALOG" :> "databricks_catalog") @@
    ("databricks_catalog" :> "databricks_catalog") @@
    ("Databricks_Catalog" :> "databricks_catalog") @@
    ("DATABRICKS_SCHEMA" :> "databricks_schema") @@
    ("databricks_schema" :> "databricks_schema") @@
    ("Databricks_Schema" :> "databricks_schema") @@
    ("AWS_ACCESS_KEY_ID" :> "aws_access_key_id") @@
    ("aws_access_key_id" :> "aws_access_key_id") @@
    ("Aws_Access_Key_Id" :> "aws_access_key_id") @@
    ("AWS_SECRET_ACCESS_KEY" :> "aws_secret_access_key") @@
    ("aws_secret_access_key" :> "aws_secret_access_key") @@
    ("Aws_Secret_Access_Key" :> "aws_secret_access_key") @@
    ("AWS_SESSION_TOKEN" :> "aws_session_token") @@
    ("aws_session_token" :> "aws_session_token") @@
    ("Aws_Session_Token" :> "aws_session_token") @@
    ("AWS_DEFAULT_REGION" :> "aws_default_region") @@
    ("aws_default_region" :> "aws_default_region") @@
    ("Aws_Default_Region" :> "aws_default_region") @@
    ("SNOWFLAKE_ROLE" :> "snowflake_role") @@
    ("snowflake_role" :> "snowflake_role") @@
    ("Snowflake_Role" :> "snowflake_role") @@
    ("GCS_BUCKET" :> "gcs_bucket") @@
    ("gcs_bucket" :> "gcs_bucket") @@
    ("Gcs_Bucket" :> "gcs_bucket")

Lower(s) == LowerTable[s]

(* ------------------------------------------------------------ universe *)

\* The (service, key) table of ConfigManager._get_env_key.
env_mappings ==
    [snowflake |->
        [account |-> "SNOWFLAKE_ACCOUNT",
         warehouse |-> "SNOWFLAKE_WAREHOUSE",
         database |-> "SNOWFLAKE_DATABASE",
         schema |-> "SNOWFLAKE_SCHEMA",
         user |-> "SNOWFLAKE_USER",
         password |-> "SNOWFLAKE_PASSWORD",
         private_key_path |-> "SNOWFLAKE_PRIVATE_KEY_PATH",
         private_key_passphrase |-> "SNOWFLAKE_PRIVATE_KEY_PASSPHRASE",
         authenticator |-> "SNOWFLAKE_AUTHENTICATOR"],
     databricks |->
        [server_hostname |-> "DATABRICKS_SERVER_HOSTNAME",
         http_path |-> "DATABRICKS_HTTP_PATH",
         access_token |-> "DATABRICKS_ACCESS_TOKEN",
         catalog |-> "DATABRICKS_CATALOG",
         schema |-> "DATABRICKS_SCHEMA"],
     s3 |->
        [aws_access_key_id |-> "AWS_ACCESS_KEY_ID",
         aws_secret_access_key |-> "AWS_SECRET_ACCESS_KEY",
         aws_session_token |-> "AWS_SESSION_TOKEN",
         region_name |-> "AWS_DEFAULT_REGION"]]

\* ConfigManager._get_env_key: the table entry, else SERVICE_KEY upper-cased.
\* Mutant: every name is synthesized, the table is not looked at.
_get_env_key_synthesized(service, key) == Upper(service) \o "_" \o Upper(key)

\* ConfigManager._get_env_key: the table's entry, else SERVICE_KEY.
_get_env_key(service, key) ==
    LET of_service == IF service \in DOMAIN env_mappings
                      THEN env_mappings[service] ELSE EmptyDict
    IN  IF key \in DOMAIN of_service
        THEN of_service[key]
        ELSE Upper(service) \o "_" \o Upper(key)

\* The (service, key) pairs of the table.
MappedPairs ==
    UNION {{<<s, k>> : k \in DOMAIN env_mappings[s]} : s \in DOMAIN env_mappings}

\* Pairs outside the table: an unlisted key of a known service, and a pair
\* of an unknown service.
UnmappedPairs == {<<"snowflake", "role">>, <<"gcs", "bucket">>}

Pairs == MappedPairs \cup UnmappedPairs

\* The variables get_current_user reads.
UserEnvNames == {"USER", "USERNAME", "LOGNAME"}

\* The variable that turns the automatic push off.
DisableName == "CLOUDCONDUIT_DISABLE_AUTO_CONFIG"

EnvNames == {_get_env_key(p[1], p[2]) : p \in Pairs} \cup UserEnvNames \cup {DisableName}

\* The keychain's account names: every spelling of a name the model passes.
KcAccounts == DOMAIN LowerTable

\* ConfigManager.__init__ / CredentialManager.__init__: service_name.
service_name == "cloudconduit"

ToValues(prefix) == {prefix \o ToString(i) : i \in 1..MaxValues}

EnvValues == {""} \cup ToValues("env")
KcValues == {""} \cup ToValues("kc")
DocValues == {""} \cup ToValues("def")
FnValues == {"", None} \cup ToValues("fn")

(* --------------------------------------------------- defaults document *)

\* A parsed YAML node: a mapping (m: key -> node or leaf), nothing (null),
\* or a truthy value that is no mapping (a non-empty sequence or scalar).
YamlMap(m) == [t |-> "map", m |-> m]
YamlNull == [t |-> "null", m |-> EmptyDict]
YamlSeq == [t |-> "seq", m |-> EmptyDict]

\* config.yaml on disk: missing, unparsable, or parsed to a node.
Missing == [state |-> "missing", content |-> YamlNull]
Unparsable == [state |-> "unparsable", content |-> YamlNull]
Parsed(c) == [state |-> "ok", content |-> c]

\* bool(node): None and the empty mapping are falsy.
YamlFalsy(c) == c.t = "null" \/ (c.t = "map" /\ DOMAIN c.m = {})

\* _load_default_config, the load itself: {} for a missing file, for a file
\* that fails to parse and for a falsy document, else the document.
load_from_disk ==
    IF file.state = "missing" THEN YamlMap(EmptyDict)
    ELSE IF file.state = "unparsable" THEN YamlMap(EmptyDict)
    ELSE IF YamlFalsy(file.content) THEN YamlMap(EmptyDict)
    ELSE file.content

\* Mutant: the document is read from disk on every call.
_load_default_config_uncached == load_from_disk

\* _load_default_config: the cached document, loaded when the cache is None.
_load_default_config ==
    IF Len(default_config) = 0 THEN load_from_disk ELSE default_config[1]

\* get_config_value, tier 4: default_config.get(service, {}).get(key);
\* .get on a value that is no mapping raises AttributeError.
default_value(service, key) ==
    LET loaded == _load_default_config
    IN  IF loaded.t # "map" THEN Raise("AttributeError")
        ELSE LET service_config == IF service \in DOMAIN loaded.m
                                   THEN loaded.m[service]
                                   ELSE YamlMap(EmptyDict)
             IN  IF service_config.t # "map" THEN Raise("AttributeError")
                 ELSE IF key \in DOMAIN service_config.m
                      THEN Return(service_config.m[key])
                      ELSE Return(None)

(* ------------------------------------------------ environment, keychain *)

\* os.getenv(name): None when the variable is unset.
os_getenv(name) == env[name]

\* keyring.get_password(service, account): None when there is no entry; a
\* failing backend raises.
keyring_get_password(service, account) ==
    IF keyring_raises THEN Raise("KeyringError")
    ELSE Return(keychain[<<service, account>>])

\* Mutant: the except clause hands back the error's text instead of None.
none_on_error_leaks(outcome) == outcome.value

\* try: return <call> / except Exception: return None.
none_on_error(outcome) ==
    IF outcome.kind = "raise" THEN None ELSE outcome.value

\* Mutant: the key is not lower-cased before the keychain is read.
_get_credential_from_keychain_raw(key) ==
    IF ~is_macos THEN None
    ELSE none_on_error(keyring_get_password(service_name, key))

\* ConfigManager._get_credential_from_keychain: None off macOS and when the
\* read raises.
_get_credential_from_keychain(key) ==
    IF ~is_macos THEN None
    ELSE none_on_error(keyring_get_password(service_name, Lower(key)))

(* ----------------------------------------------------- get_config_value *)

\* Mutant: an override counts only when its value is truthy.
in_function_config_truthy(key, function_config) ==
    /\ function_config # NoDict
    /\ key \in DOMAIN function_config[1]
    /\ Truthy(function_config[1][key])

\* Mutant: an override counts only when its value is not None.
in_function_config_not_none(key, function_config) ==
    /\ function_config # NoDict
    /\ key \in DOMAIN function_config[1]
    /\ function_config[1][key] # None

\* "function_config and key in function_config".
in_function_config(key, function_config) ==
    /\ function_config # NoDict
    /\ DOMAIN function_config[1] # {}
    /\ key \in DOMAIN function_config[1]

\* Mutant: the keychain is asked before the environment.
tier_of_keychain_first(service, key, function_config, is_credential) ==
    LET env_key == _get_env_key(service, key)
    IN  IF in_function_config(key, function_config) THEN "function"
        ELSE IF is_credential /\ Truthy(_get_credential_from_keychain(env_key))
             THEN "keychain"
        ELSE IF Truthy(os_getenv(env_key)) THEN "env"
        ELSE "default"

\* Mutant: the keychain is asked whatever is_credential says.
tier_of_any_credential(service, key, function_config, is_credential) ==
    LET env_key == _get_env_key(service, key)
    IN  IF in_function_config(key, function_config) THEN "function"
        ELSE IF Truthy(os_getenv(env_key)) THEN "env"
        ELSE IF Truthy(_get_credential_from_keychain(env_key)) THEN "keychain"
        ELSE "default"

\* The tier get_config_value answers from.
tier_of(service, key, function_config, is_credential) ==
    LET env_key == _get_env_key(service, key)
    IN  IF in_function_config(key, function_config) THEN "function"
        ELSE IF Truthy(os_getenv(env_key)) THEN "env"
        ELSE IF is_credential /\ Truthy(_get_credential_from_keychain(env_key))
             THEN "keychain"
        ELSE "default"

\* ConfigManager.get_config_value.
get_config_value(service, key, function_config, is_credential) ==
    LET env_key == _get_env_key(service, key)
        tier == tier_of(service, key, function_config, is_credential)
    IN  CASE tier = "function" -> Return(function_config[1][key])
          [] tier = "env" -> Return(os_getenv(env_key))
          [] tier = "keychain" -> Return(_get_credential_from_keychain(env_key))
          [] OTHER -> default_value(service, key)

(* ----------------------------------------------------- get_current_user *)

\* What the host answers to getpass.getuser() and os.getlogin().
Hosts ==
    {[getpass |-> Return("alice"), getlogin |-> Return("alice")],
     [getpass |-> Raise("KeyError"), getlogin |-> Return("bob")],
     [getpass |-> Return(""), getlogin |-> Return("bob")],
     [getpass |-> Raise("KeyError"), getlogin |-> Raise("OSError")]}

\* The first truthy value among the variables, in order.
RECURSIVE first_env_user(_)
first_env_user(names) ==
    IF names = <<>> THEN "unknown_user"
    ELSE IF Truthy(os_getenv(Head(names))) THEN os_getenv(Head(names))
    ELSE first_env_user(Tail(names))

\* system_info.get_current_user.
get_current_user(host) ==
    IF host.getpass.kind = "return" THEN host.getpass.value
    ELSE IF host.getlogin.kind = "return" THEN host.getlogin.value
    ELSE first_env_user(<<"USER", "USERNAME", "LOGNAME">>)

(* ----------------------------------------------------------- aggregators *)

\* Mutant: private_key_path is looked up as a credential.
snowflake_params_path_credential ==
    <<<<"account", FALSE>>, <<"warehouse", FALSE>>, <<"database", FALSE>>,
      <<"schema", FALSE>>, <<"password", TRUE>>, <<"private_key_path", TRUE>>,
      <<"private_key_passphrase", TRUE>>, <<"authenticator", FALSE>>>>

\* The parameters each aggregator resolves, with their is_credential flag.
snowflake_params ==
    <<<<"account", FALSE>>, <<"warehouse", FALSE>>, <<"database", FALSE>>,
      <<"schema", FALSE>>, <<"password", TRUE>>, <<"private_key_path", FALSE>>,
      <<"private_key_passphrase", TRUE>>, <<"authenticator", FALSE>>>>

databricks_params ==
    <<<<"server_hostname", FALSE>>, <<"http_path", FALSE>>,
      <<"access_token", TRUE>>, <<"catalog", FALSE>>, <<"schema", FALSE>>>>

s3_params ==
    <<<<"aws_access_key_id", TRUE>>, <<"aws_secret_access_key", TRUE>>,
      <<"aws_session_token", TRUE>>, <<"region_name", FALSE>>>>

params_of(service) ==
    CASE service = "snowflake" -> snowflake_params
      [] service = "databricks" -> databricks_params
      [] service = "s3" -> s3_params

\* The lookups of the "result = {...}" dict literal, in order.
resolved(service, config) ==
    [i \in DOMAIN params_of(service) |->
        get_config_value(service, params_of(service)[i][1], config,
                         params_of(service)[i][2])]

\* Mutant: "if v" in place of "if v is not None".
remove_falsy(d) == [k \in {x \in DOMAIN d : Truthy(d[x])} |-> d[k]]

\* "{k: v for k, v in result.items() if v is not None}".
remove_none(d) == [k \in {x \in DOMAIN d : d[x] # None} |-> d[k]]

\* Mutant: the entries of the override mapping are kept in the result.
aggregate_keeping_override(service, first, config) ==
    LET params == params_of(service)
        r == resolved(service, config)
        given == IF config = NoDict THEN EmptyDict ELSE config[1]
    IN  IF \E i \in DOMAIN r : r[i].kind = "raise"
        THEN Raise("AttributeError")
        ELSE Return(remove_none(
                 given @@ first @@ [k \in {params[i][1] : i \in DOMAIN params} |->
                     r[CHOOSE i \in DOMAIN params : params[i][1] = k].value]))

\* The aggregate of a service; `first` holds the entries set before the
\* lookups (snowflake's 'user'). A lookup that raises ends the call.
aggregate(service, first, config) ==
    LET params == params_of(service)
        r == resolved(service, config)
    IN  IF \E i \in DOMAIN r : r[i].kind = "raise"
        THEN Raise("AttributeError")
        ELSE Return(remove_none(
                 first @@ [k \in {params[i][1] : i \in DOMAIN params} |->
                     r[CHOOSE i \in DOMAIN params : params[i][1] = k].value]))

\* Mutant: 'user' is resolved through the tiers like any other parameter.
get_snowflake_config_user_resolved(username, config, host) ==
    LET looked_up == get_config_value("snowflake", "user", config, FALSE)
        user == IF looked_up.value # None THEN looked_up.value
                ELSE IF username = None THEN get_current_user(host) ELSE username
    IN  aggregate("snowflake", [user |-> user], config)

\* ConfigManager.get_snowflake_config.
get_snowflake_config(username, config, host) ==
    LET user == IF username = None THEN get_current_user(host) ELSE username
    IN  aggregate("snowflake", [user |-> user], config)

\* ConfigManager.get_databricks_config.
get_databricks_config(config) == aggregate("databricks", EmptyDict, config)

\* ConfigManager.get_s3_config.
get_s3_config(config) == aggregate("s3", EmptyDict, config)

\* Whether an aggregator's lookups reach the defaults tier (and load it).
loads_defaults(service, config) ==
    \E i \in DOMAIN params_of(service) :
        tier_of(service, params_of(service)[i][1], config,
                params_of(service)[i][2]) = "default"

(* -------------------------------------------------------- keychain writes *)

\* keyring.set_password(service, account, value): outcome and the keychain
\* afterwards; a failing backend raises and writes nothing.
keyring_set_password(service, account, value) ==
    IF keyring_raises
    THEN [result |-> Raise("KeyringError"), keychain |-> keychain]
    ELSE [result |-> Return(None),
          keychain |-> [keychain EXCEPT ![<<service, account>>] = value]]

\* keyring.delete_password(service, account): outcome and the keychain
\* afterwards; a failing backend raises, and a working one raises
\* PasswordDeleteError when there is no such entry.
keyring_delete_password(service, account) ==
    IF keyring_raises
    THEN [result |-> Raise("KeyringError"), keychain |-> keychain]
    ELSE IF keychain[<<service, account>>] = None
    THEN [result |-> Raise("PasswordDeleteError"), keychain |-> keychain]
    ELSE [result |-> Return(None),
          keychain |-> [keychain EXCEPT ![<<service, account>>] = None]]

\* Mutant: the key is stored as it is spelled.
ConfigManager_set_credential_raw(key, value) ==
    IF ~is_macos
    THEN [result |-> Raise("RuntimeError"), keychain |-> keychain]
    ELSE keyring_set_password(service_name, key, value)

\* ConfigManager.set_credential: outcome and keychain afterwards; a keyring
\* error propagates as it is.
ConfigManager_set_credential(key, value) ==
    IF ~is_macos
    THEN [result |-> Raise("RuntimeError"), keychain |-> keychain]
    ELSE keyring_set_password(service_name, Lower(key), value)

\* ConfigManager.delete_credential: a keyring error propagates as it is.
ConfigManager_delete_credential(key) ==
    IF ~is_macos
    THEN [result |-> Raise("RuntimeError"), keychain |-> keychain]
    ELSE keyring_delete_password(service_name, Lower(key))

\* CredentialManager.set_credential: a keyring error becomes RuntimeError.
CredentialManager_set_credential(key, value) ==
    IF is_macos
    THEN LET stored_entry == keyring_set_password(service_name, Lower(key), value)
         IN  IF stored_entry.result.kind = "raise"
             THEN [result |-> Raise("RuntimeError"), keychain |-> stored_entry.keychain]
             ELSE stored_entry
    ELSE [result |-> Raise("RuntimeError"), keychain |-> keychain]

\* CredentialManager.delete_credential: a keyring error becomes RuntimeError.
CredentialManager_delete_credential(key) ==
    IF is_macos
    THEN LET deleted == keyring_delete_password(service_name, Lower(key))
         IN  IF deleted.result.kind = "raise"
             THEN [result |-> Raise("RuntimeError"), keychain |-> deleted.keychain]
             ELSE deleted
    ELSE [result |-> Raise("RuntimeError"), keychain |-> keychain]

(* ------------------------------------------------------------- scenarios *)

\* A scenario populates the sources for one parameter, or for none.
Scenarios == {{}} \cup {{p} : p \in Pairs}

\* Each pair's environment-variable name and keychain entry.
EnvKeys == [p \in Pairs |-> _get_env_key(p[1], p[2])]
EnvKeyOf(p) == EnvKeys[p]
Accounts == [p \in Pairs |-> <<service_name, Lower(EnvKeys[p])>>]
AccountOf(p) == Accounts[p]

\* The defaults document holding dv[p] for the pairs p of S with an entry.
DocOf(S, dv) ==
    LET entries == {p \in S : dv[p] # None}
    IN  YamlMap([s \in {p[1] : p \in entries} |->
            YamlMap([k \in {p[2] : p \in {q \in entries : q[1] = s}} |->
                dv[<<s, k>>]])])

\* The document of the specification's end-to-end scenario.
ExampleFile ==
    Parsed(YamlMap([snowflake |->
        YamlMap([account |-> "acct-default", warehouse |-> "WH_DEFAULT"])]))

\* config.yaml in the documented format (service -> key -> value), or missing.
WellFormedFiles(S, dv) ==
    {IF \A p \in S : dv[p] = None THEN Missing ELSE Parsed(DocOf(S, dv))} \cup
    (IF S = {} THEN {ExampleFile} ELSE {})

\* config.yaml with any content: missing, unparsable, empty, not a mapping
\* at top level, or with a service entry that is null or not a mapping.
AnyFiles(S) ==
    {Missing, Unparsable, Parsed(YamlNull), Parsed(YamlSeq)} \cup
    {Parsed(YamlMap(p[1] :> YamlNull)) : p \in S} \cup
    {Parsed(YamlMap(p[1] :> YamlSeq)) : p \in S}

\* A credential and a plain parameter of each service.
SamplePairs ==
    {<<"snowflake", "password">>, <<"snowflake", "account">>,
     <<"databricks", "access_token">>, <<"databricks", "http_path">>,
     <<"s3", "aws_access_key_id">>, <<"s3", "region_name">>}

\* The sources populated for the pairs of S only.
Populated(S, ev, kv) ==
    /\ env = [n \in EnvNames |->
                IF \E p \in S : EnvKeyOf(p) = n
                THEN ev[CHOOSE p \in S : EnvKeyOf(p) = n] ELSE None]
    /\ keychain = [a \in {service_name} \X KcAccounts |->
                IF \E p \in S : AccountOf(p) = a
                THEN kv[CHOOSE p \in S : AccountOf(p) = a] ELSE None]

\* No connector constructed yet.
NoConnector == [kind |-> "none"]

\* CloudConduit.__init__: no connector stored for any backend; the connectors
\* constructed so far.
NoConduit == [_snowflake |-> None, _databricks |-> None, _s3 |-> None,
              constructed |-> <<>>]

\* A keyring backend that works, nothing printed, one ConfigManager only, no
\* connector, no vendor connection attempted or handed out, and a
\* CloudConduit that has constructed nothing.
Undisturbed ==
    /\ keyring_raises = FALSE
    /\ warnings = 0
    /\ others = <<>>
    /\ connector = NoConnector
    /\ vendor_connects = 0
    /\ closes = <<>>
    /\ conduit = NoConduit
    /\ with_entered = NotEntered

\* A host, an environment, a keychain and a config.yaml in the documented
\* format; a fresh ConfigManager (nothing cached), no call made yet.
Init ==
    /\ is_macos \in BOOLEAN
    /\ \E S \in Scenarios :
         \E ev \in [S -> EnvValues \cup {None}],
            kv \in [S -> KcValues \cup {None}],
            dv \in [S -> DocValues \cup {None}] :
              /\ Populated(S, ev, kv)
              /\ file \in WellFormedFiles(S, dv)
    /\ default_config = NoDict
    /\ last = [op |-> "init"]
    /\ Undisturbed

\* The same with config.yaml holding any content.
InitAnyDoc ==
    /\ is_macos \in BOOLEAN
    /\ \E p \in SamplePairs :
         \E ev \in [{p} -> ToValues("env") \cup {None}],
            kv \in [{p} -> ToValues("kc") \cup {None}] :
              /\ Populated({p}, ev, kv)
              /\ file \in AnyFiles({p})
    /\ default_config = NoDict
    /\ last = [op |-> "init"]
    /\ Undisturbed

\* Whether the document on disk has something at the pair.
InFile(p) ==
    /\ file.state = "ok"
    /\ file.content.t = "map"
    /\ p[1] \in DOMAIN file.content.m
    /\ file.content.m[p[1]].t = "map"
    /\ p[2] \in DOMAIN file.content.m[p[1]].m

\* The pairs some source holds something for.
InPlay ==
    {p \in Pairs : env[EnvKeyOf(p)] # None \/ keychain[AccountOf(p)] # None \/ InFile(p)}

\* The spellings of a pair's environment-variable name.
SpellingsOf == [p \in Pairs |-> {n \in DOMAIN LowerTable : Lower(n) = Lower(EnvKeyOf(p))}]
Spellings(p) == SpellingsOf[p]

\* The pairs the latest call was about.
LastPairs ==
    CASE last.op = "get_config_value" -> {<<last.service, last.key>>}
      [] last.op \in {"set_credential", "delete_credential"} ->
            {p \in Pairs : last.key \in Spellings(p)}
      [] last.op \in {"get_snowflake_config", "get_databricks_config", "get_s3_config"} ->
            IF last.config = NoDict THEN {}
            ELSE {<<last.service, k>> : k \in DOMAIN last.config[1]}
      [] OTHER -> {}

\* A scenario stays with the pairs of its sources and of its latest call;
\* its first call may be about any pair.
QueryPairs ==
    IF InPlay # {} THEN InPlay
    ELSE IF LastPairs # {} THEN LastPairs
    ELSE Pairs

\* An aggregator is called for a service of such a pair.
QueryServices == {p[1] : p \in QueryPairs}

(* --------------------------------------------------------------- actions *)

\* The override mappings a lookup of `key` is given.
ConfigsFor(key) ==
    {NoDict, Some(EmptyDict), Some("unrelated" :> "x")} \cup
    {Some(key :> v) : v \in FnValues}

\* The override mappings an aggregator of `service` is given.
AggregatorConfigs(service) ==
    {NoDict} \cup
    {Some(p[2] :> v) : p \in {q \in QueryPairs : q[1] = service},
                       v \in FnValues}

\* The cache after a call: the loaded document once a lookup reached tier 4.
cache_after(reached) ==
    IF reached THEN Some(_load_default_config) ELSE default_config

\* cm.get_config_value(service, key, function_config, is_credential).
GetConfigValue ==
    \E p \in QueryPairs, is_credential \in BOOLEAN :
      \E function_config \in ConfigsFor(p[2]) :
        /\ last' = [op |-> "get_config_value", service |-> p[1], key |-> p[2],
                    config |-> function_config, is_credential |-> is_credential,
                    result |-> get_config_value(p[1], p[2], function_config,
                                                is_credential)]
        /\ default_config' = cache_after(
               tier_of(p[1], p[2], function_config, is_credential) = "default")
        /\ UNCHANGED <<is_macos, env, keychain, file, surroundings>>

\* The host is asked for the user only when no username is passed.
HostNotAsked == [getpass |-> Raise("not called"), getlogin |-> Raise("not called")]

\* cm.get_snowflake_config(username, config).
GetSnowflakeConfig ==
    \E username \in {None, "", "carol"}, config \in AggregatorConfigs("snowflake") :
      \E host \in IF username = None THEN Hosts ELSE {HostNotAsked} :
        /\ "snowflake" \in QueryServices
        /\ last' = [op |-> "get_snowflake_config", service |-> "snowflake",
                    username |-> username, config |-> config, host |-> host,
                    result |-> get_snowflake_config(username, config, host)]
        /\ default_config' = cache_after(loads_defaults("snowflake", config))
        /\ UNCHANGED <<is_macos, env, keychain, file, surroundings>>

\* cm.get_databricks_config(config).
GetDatabricksConfig ==
    \E config \in AggregatorConfigs("databricks") :
        /\ "databricks" \in QueryServices
        /\ last' = [op |-> "get_databricks_config", service |-> "databricks",
                    config |-> config, result |-> get_databricks_config(config)]
        /\ default_config' = cache_after(loads_defaults("databricks", config))
        /\ UNCHANGED <<is_macos, env, keychain, file, surroundings>>

\* cm.get_s3_config(config).
GetS3Config ==
    \E config \in AggregatorConfigs("s3") :
        /\ "s3" \in QueryServices
        /\ last' = [op |-> "get_s3_config", service |-> "s3",
                    config |-> config, result |-> get_s3_config(config)]
        /\ default_config' = cache_after(loads_defaults("s3", config))
        /\ UNCHANGED <<is_macos, env, keychain, file, surroundings>>

Managers == {"ConfigManager", "CredentialManager"}

\* set_credential(key, value) of either manager.
SetCredential ==
    \E p \in QueryPairs, manager \in Managers, value \in KcValues :
      \E key \in Spellings(p) :
        LET done == IF manager = "ConfigManager"
                    THEN ConfigManager_set_credential(key, value)
                    ELSE CredentialManager_set_credential(key, value)
        IN  /\ last' = [op |-> "set_credential", manager |-> manager,
                        key |-> key, value |-> value, result |-> done.result]
            /\ keychain' = done.keychain
            /\ UNCHANGED <<is_macos, env, file, default_config, surroundings>>

\* delete_credential(key) of either manager.
DeleteCredential ==
    \E p \in QueryPairs, manager \in Managers :
      \E key \in Spellings(p) :
        LET done == IF manager = "ConfigManager"
                    THEN ConfigManager_delete_credential(key)
                    ELSE CredentialManager_delete_credential(key)
        IN  /\ last' = [op |-> "delete_credential", manager |-> manager,
                        key |-> key, result |-> done.result]
            /\ keychain' = done.keychain
            /\ UNCHANGED <<is_macos, env, file, default_config, surroundings>>

\* Single lookups.
Next == GetConfigValue

\* The aggregators.
NextAggregate ==
    \/ GetSnowflakeConfig
    \/ GetDatabricksConfig
    \/ GetS3Config

\* Keychain writes, and the lookups that read them back.
NextKeychain ==
    \/ SetCredential
    \/ DeleteCredential
    \/ GetConfigValue

\* Lookups and aggregators.
NextResolve ==
    \/ GetConfigValue
    \/ GetSnowflakeConfig
    \/ GetDatabricksConfig
    \/ GetS3Config

\* Lookups, with config.yaml in its documented format, or missing.
Spec == Init /\ [][Next]_vars

\* The aggregators, with config.yaml in its documented format, or missing.
SpecAggregate == Init /\ [][NextAggregate]_vars

\* The keychain operations, with config.yaml as for Spec.
SpecKeychain == Init /\ [][NextKeychain]_vars

\* Lookups and aggregators with config.yaml holding any content.
SpecAnyDoc == InitAnyDoc /\ [][NextResolve]_vars

\* The pairs the override scenarios are about: parameters and credentials
\* of each backend, and snowflake's user.
OverridePairs ==
    {<<"snowflake", "account">>, <<"snowflake", "user">>, <<"snowflake", "password">>,
     <<"databricks", "access_token">>, <<"s3", "region_name">>}

\* As Init, with one of these pairs in the sources.
InitOverride ==
    /\ is_macos \in BOOLEAN
    /\ \E S \in {{p} : p \in OverridePairs} :
         \E ev \in [S -> EnvValues \cup {None}],
            kv \in [S -> KcValues \cup {None}],
            dv \in [S -> DocValues \cup {None}] :
              /\ Populated(S, ev, kv)
              /\ file \in WellFormedFiles(S, dv)
    /\ default_config = NoDict
    /\ last = [op |-> "init"]
    /\ Undisturbed

\* Lookups and aggregators under overrides of a pair the sources hold.
SpecOverride == InitOverride /\ [][NextResolve]_vars

(* ------------------------------------------- a keyring that fails on reads *)

\* CredentialManager.get_credential: the environment variable key.upper()
\* when truthy, else on macOS the keychain entry key.lower() (None when the
\* read raises), else None.
CredentialManager_get_credential(key) ==
    LET env_value == os_getenv(Upper(key))
    IN  IF Truthy(env_value) THEN Return(env_value)
        ELSE IF is_macos
             THEN Return(none_on_error(keyring_get_password(service_name, Lower(key))))
             ELSE Return(None)

\* credential_manager.get_credential(key).
GetCredential ==
    \E p \in QueryPairs :
      \E key \in Spellings(p) :
        /\ last' = [op |-> "get_credential", key |-> key,
                    result |-> CredentialManager_get_credential(key)]
        /\ UNCHANGED <<is_macos, env, keychain, file, default_config, surroundings>>

\* As Init, with a keyring backend that may raise on every call.
InitKeyringFault ==
    /\ is_macos \in BOOLEAN
    /\ \E S \in Scenarios :
         \E ev \in [S -> EnvValues \cup {None}],
            kv \in [S -> KcValues \cup {None}],
            dv \in [S -> DocValues \cup {None}] :
              /\ Populated(S, ev, kv)
              /\ file \in WellFormedFiles(S, dv)
    /\ default_config = NoDict
    /\ last = [op |-> "init"]
    /\ keyring_raises \in BOOLEAN
    /\ warnings = 0
    /\ others = <<>>
    /\ connector = NoConnector
    /\ vendor_connects = 0
    /\ closes = <<>>
    /\ conduit = NoConduit
    /\ with_entered = NotEntered

\* set_credential / delete_credential against the backend that raises (the
\* writes to a working one are SpecKeychain's).
SetCredentialFailing ==
    /\ keyring_raises
    /\ SetCredential

DeleteCredentialFailing ==
    /\ keyring_raises
    /\ DeleteCredential

\* Reads of either manager, and writes the backend refuses.
NextKeyringFault ==
    \/ GetConfigValue
    \/ GetCredential
    \/ SetCredentialFailing
    \/ DeleteCredentialFailing

SpecKeyringFault == InitKeyringFault /\ [][NextKeyringFault]_vars


(* ------------------------------------- config_helper: load and push to env *)

\* A YAML integer scalar among the string values of the model.
PyInt(n) == "<int " \o ToString(n) \o ">"

\* The integers a document of the model holds.
IntValues == {0, 8080}

\* str(value): the digits of an integer, a string as it is.
str(value) ==
    IF \E n \in IntValues : value = PyInt(n)
    THEN ToString(CHOOSE n \in IntValues : value = PyInt(n))
    ELSE value

\* bool(value) of a YAML scalar: None, "" and 0 are falsy.
TruthyValue(value) == Truthy(value) /\ value # PyInt(0)

\* config_helper.load_config(config_path): {} for a missing target, {} and
\* one printed warning for a target that fails to parse, {} for a falsy
\* document, else the document.
load_config(target) ==
    IF target.state = "missing" THEN [config |-> YamlMap(EmptyDict), warned |-> 0]
    ELSE IF target.state = "unparsable" THEN [config |-> YamlMap(EmptyDict), warned |-> 1]
    ELSE IF YamlFalsy(target.content) THEN [config |-> YamlMap(EmptyDict), warned |-> 0]
    ELSE [config |-> target.content, warned |-> 0]

\* push_config_to_env: config key -> environment variable, per service.
sf_mappings ==
    <<<<"account", "SNOWFLAKE_ACCOUNT">>, <<"warehouse", "SNOWFLAKE_WAREHOUSE">>,
      <<"database", "SNOWFLAKE_DATABASE">>, <<"schema", "SNOWFLAKE_SCHEMA">>>>

db_mappings ==
    <<<<"server_hostname", "DATABRICKS_SERVER_HOSTNAME">>,
      <<"http_path", "DATABRICKS_HTTP_PATH">>,
      <<"catalog", "DATABRICKS_CATALOG">>, <<"schema", "DATABRICKS_SCHEMA">>>>

\* Mutant: the region goes to a variable the engine reads for another key.
s3_mappings_other_variable == <<<<"region_name", "AWS_SESSION_TOKEN">>>>

s3_mappings == <<<<"region_name", "AWS_DEFAULT_REGION">>>>

\* The three loops of push_config_to_env, in their order.
push_mappings ==
    <<<<"snowflake", sf_mappings>>, <<"databricks", db_mappings>>, <<"s3", s3_mappings>>>>

\* "env_key not in os.environ or override".
write_needed(present, override) == ~present \/ override

\* One loop of push_config_to_env from its i-th key on: acc.env is
\* os.environ and acc.set is env_vars_set.
RECURSIVE push_keys(_, _, _, _, _)
push_keys(acc, node, mappings, i, override) ==
    IF i > Len(mappings) THEN acc
    ELSE LET config_key == mappings[i][1]
             env_key == mappings[i][2]
             value == IF config_key \in DOMAIN node.m THEN node.m[config_key] ELSE None
             write == /\ TruthyValue(value)
                      /\ write_needed(acc.env[env_key] # None, override)
             next == IF write
                     THEN [env |-> [acc.env EXCEPT ![env_key] = str(value)],
                           set |-> (env_key :> str(value)) @@ acc.set]
                     ELSE acc
         IN  push_keys(next, node, mappings, i + 1, override)

\* The loops from the s-th service on; config.get(service, {}) and
\* <service node>.get(key) raise AttributeError on what is no mapping.
RECURSIVE push_services(_, _, _, _)
push_services(acc, config, s, override) ==
    IF s > Len(push_mappings) THEN [env |-> acc.env, result |-> Return(acc.set)]
    ELSE IF config.t # "map" THEN [env |-> acc.env, result |-> Raise("AttributeError")]
    ELSE LET service == push_mappings[s][1]
             node == IF service \in DOMAIN config.m THEN config.m[service]
                     ELSE YamlMap(EmptyDict)
         IN  IF node.t # "map"
             THEN [env |-> acc.env, result |-> Raise("AttributeError")]
             ELSE push_services(push_keys(acc, node, push_mappings[s][2], 1, override),
                                config, s + 1, override)

\* config_helper.push_config_to_env(config_path, override): os.environ after
\* the call, how the call ended, and the warnings it printed.
push_config_to_env(target, override) ==
    LET loaded == load_config(target)
        done == push_services([env |-> env, set |-> EmptyDict], loaded.config, 1, override)
    IN  [env |-> done.env, result |-> done.result, warned |-> loaded.warned]

\* create_user_config: the keys of the template it writes, each with the
\* value used when the package's config.yaml has none.
user_config_template ==
    [snowflake |-> [account |-> "your-account", warehouse |-> "COMPUTE_WH",
                    database |-> "ANALYTICS", schema |-> "PUBLIC"],
     databricks |-> [server_hostname |-> "", http_path |-> "",
                     catalog |-> "main", schema |-> "default"],
     s3 |-> [region_name |-> "us-east-1"]]

\* A value as an f-string writes it: str(value), "None" for None.
format_value(value) == IF value = None THEN "None" ELSE str(value)

\* The document the written template parses to: every template key as a
\* double-quoted string, all else of the package's document left out.
rendered_user_config(config) ==
    YamlMap([s \in DOMAIN user_config_template |->
        YamlMap([k \in DOMAIN user_config_template[s] |->
            IF s \in DOMAIN config.m /\ k \in DOMAIN config.m[s].m
            THEN format_value(config.m[s].m[k])
            ELSE user_config_template[s][k]])])

\* config_helper.create_user_config(target_path): the package's config.yaml
\* is loaded; a falsy document prints a warning and nothing is written;
\* default_config.get(service, {}).get(key, ...) raises AttributeError on
\* what is no mapping; else the template is written to the target, which
\* may be the package's config.yaml itself.
create_user_config(to_package) ==
    LET loaded == load_config(file)
        config == loaded.config
    IN  IF YamlFalsy(config)
        THEN [file |-> file, result |-> Return(None), warned |-> loaded.warned + 1]
        ELSE IF \/ config.t # "map"
                \/ \E s \in DOMAIN user_config_template \cap DOMAIN config.m :
                       config.m[s].t # "map"
        THEN [file |-> file, result |-> Raise("AttributeError"),
              warned |-> loaded.warned]
        ELSE [file |-> IF to_package THEN Parsed(rendered_user_config(config)) ELSE file,
              result |-> Return(None), warned |-> loaded.warned]

\* Mutant: the disable variable is not looked at.
_auto_load_config_ungated ==
    LET done == push_config_to_env(file, FALSE)
    IN  [env |-> done.env, result |-> Return(None), warned |-> done.warned]

\* cloudconduit._auto_load_config: nothing when the disable variable is
\* truthy, else the push with its exceptions swallowed.
_auto_load_config ==
    IF Truthy(os_getenv(DisableName))
    THEN [env |-> env, result |-> Return(None), warned |-> 0]
    ELSE LET done == push_config_to_env(file, FALSE)
         IN  [env |-> done.env, result |-> Return(None), warned |-> done.warned]

\* quick_config.load_config: the same gate, and a line printed on each path.
quick_config_load_config ==
    IF Truthy(os_getenv(DisableName))
    THEN [env |-> env, result |-> Return(None), warned |-> 0, printed |-> "disabled"]
    ELSE LET done == push_config_to_env(file, FALSE)
         IN  [env |-> done.env, result |-> Return(None), warned |-> done.warned,
              printed |-> IF done.result.kind = "raise" THEN "failed" ELSE "loaded"]

\* The (service, key) pairs push_config_to_env reads.
PushablePairs ==
    UNION {{<<push_mappings[s][1], push_mappings[s][2][i][1]>> :
                i \in DOMAIN push_mappings[s][2]} : s \in DOMAIN push_mappings}

\* The variable a pushable pair goes to.
PushNameOf(p) ==
    LET s == CHOOSE s \in DOMAIN push_mappings : push_mappings[s][1] = p[1]
        i == CHOOSE i \in DOMAIN push_mappings[s][2] : push_mappings[s][2][i][1] = p[2]
    IN  push_mappings[s][2][i][2]

\* What a key of config.yaml may hold: null, "", a string, 0, an integer.
PushLeaves == DocValues \cup {None} \cup {PyInt(n) : n \in IntValues}

\* Samples of two keys, in one service and across services.
PushSamples ==
    {{<<"snowflake", "account">>, <<"snowflake", "warehouse">>},
     {<<"snowflake", "database">>, <<"databricks", "catalog">>},
     {<<"databricks", "schema">>, <<"s3", "region_name">>}}

\* config.yaml holding lv[p] at the pairs of S.
PushDocOf(S, lv) ==
    YamlMap([s \in {p[1] : p \in S} |->
        YamlMap([k \in {p[2] : p \in {q \in S : q[1] = s}} |-> lv[<<s, k>>]])])

\* A service entry that is no mapping, after or before a mapping with a
\* pushable value.
BrokenServiceFiles ==
    {Parsed(YamlMap([snowflake |-> YamlMap([account |-> v]), databricks |-> YamlNull])) :
        v \in ToValues("def")} \cup
    {Parsed(YamlMap([snowflake |-> YamlSeq, databricks |-> YamlMap([catalog |-> v])])) :
        v \in ToValues("def")}

\* The variables a document bears on.
PushScope(f) ==
    IF f.state = "ok" /\ f.content.t = "map"
    THEN {PushNameOf(p) : p \in {q \in PushablePairs :
            /\ q[1] \in DOMAIN f.content.m
            /\ f.content.m[q[1]].t = "map"
            /\ q[2] \in DOMAIN f.content.m[q[1]].m}}
    ELSE {"SNOWFLAKE_ACCOUNT"}

\* A process before the package is imported: config.yaml missing,
\* unparsable, empty, no mapping, or holding one or two pushable keys; the
\* variables it bears on unset, empty or set; the disable variable likewise.
InitPush ==
    /\ is_macos = FALSE
    /\ keychain = [a \in {service_name} \X KcAccounts |-> None]
    /\ file \in {Missing, Unparsable, Parsed(YamlNull), Parsed(YamlSeq)}
                \cup BrokenServiceFiles
                \cup UNION {{Parsed(PushDocOf(S, lv)) : lv \in [S -> PushLeaves]} :
                              S \in {{p} : p \in PushablePairs}}
                \cup UNION {{Parsed(PushDocOf(S, lv)) : lv \in [S -> ToValues("def") \cup {""}]} :
                              S \in PushSamples}
    /\ \E ev \in [PushScope(file) -> EnvValues \cup {None}],
          off \in {None, "", "1"} :
            env = [n \in EnvNames |->
                      IF n \in PushScope(file) THEN ev[n]
                      ELSE IF n = DisableName THEN off ELSE None]
    /\ default_config = NoDict
    /\ last = [op |-> "init"]
    /\ Undisturbed

\* config_helper.push_config_to_env(override=...).
PushConfigToEnv ==
    \E override \in BOOLEAN :
        LET done == push_config_to_env(file, override)
        IN  /\ warnings + done.warned <= MaxWarnings
            /\ env' = done.env
            /\ warnings' = warnings + done.warned
            /\ last' = [op |-> "push_config_to_env", override |-> override,
                        result |-> done.result]
            /\ UNCHANGED <<is_macos, keychain, file, default_config,
                           keyring_raises, others, connector, vendor_connects, closes, conduit, with_entered>>

\* import cloudconduit: _auto_load_config().
AutoLoadConfig ==
    LET done == _auto_load_config
    IN  /\ warnings + done.warned <= MaxWarnings
        /\ env' = done.env
        /\ warnings' = warnings + done.warned
        /\ last' = [op |-> "_auto_load_config", result |-> done.result]
        /\ UNCHANGED <<is_macos, keychain, file, default_config,
                       keyring_raises, others, connector, vendor_connects, closes, conduit, with_entered>>

\* quick_config.load_config().
QuickLoadConfig ==
    LET done == quick_config_load_config
    IN  /\ warnings + done.warned <= MaxWarnings
        /\ env' = done.env
        /\ warnings' = warnings + done.warned
        /\ last' = [op |-> "quick_config.load_config", result |-> done.result,
                    printed |-> done.printed]
        /\ UNCHANGED <<is_macos, keychain, file, default_config,
                       keyring_raises, others, connector, vendor_connects, closes, conduit, with_entered>>

\* config_helper.load_config(config_path): the package's config.yaml, or a
\* path where nothing is.
LoadConfig ==
    \E target \in {file, Missing} :
        LET done == load_config(target)
        IN  /\ warnings + done.warned <= MaxWarnings
            /\ warnings' = warnings + done.warned
            /\ last' = [op |-> "load_config", target |-> target,
                        result |-> Return(done.config),
                        warned |-> warnings' - warnings]
            /\ UNCHANGED <<is_macos, env, keychain, file, default_config,
                           keyring_raises, others, connector, vendor_connects, closes, conduit, with_entered>>

\* cm._load_default_config(): loads and caches, and prints nothing.
LoadDefaultConfig ==
    /\ default_config' = Some(_load_default_config)
    /\ UNCHANGED <<is_macos, env, keychain, file, surroundings>>
    /\ last' = [op |-> "_load_default_config", target |-> file,
                result |-> Return(_load_default_config),
                warned |-> warnings' - warnings]

\* create_user_config(target_path), to the package's config.yaml or to a
\* path elsewhere.
CreateUserConfig ==
    \E to_package \in BOOLEAN :
        LET done == create_user_config(to_package)
        IN  /\ warnings + done.warned <= MaxWarnings
            /\ file' = done.file
            /\ warnings' = warnings + done.warned
            /\ last' = [op |-> "create_user_config", to_package |-> to_package,
                        result |-> done.result, warned |-> done.warned]
            /\ UNCHANGED <<is_macos, env, keychain, default_config,
                           keyring_raises, others, connector, vendor_connects,
                           closes, conduit, with_entered>>

\* The loaders, the pushes and the template writer.
NextPush ==
    \/ PushConfigToEnv
    \/ AutoLoadConfig
    \/ QuickLoadConfig
    \/ LoadConfig
    \/ LoadDefaultConfig
    \/ CreateUserConfig

SpecPush == InitPush /\ [][NextPush]_vars

\* Pushes, a ConfigManager caching the defaults, and config.yaml rewritten
\* from the template.
NextPushed ==
    \/ PushConfigToEnv
    \/ LoadDefaultConfig
    \/ CreateUserConfig

SpecPushed == InitPush /\ [][NextPushed]_vars

(* ------------------------------ several ConfigManagers, a changing config.yaml *)

\* The pairs the scenarios of the cache are about.
CachePairs == {<<"snowflake", "account">>, <<"s3", "aws_access_key_id">>}

\* What config.yaml holds for a pair over time: nothing (missing, unparsable
\* or empty), a value, or another value.
CacheFiles(p) ==
    {Missing, Unparsable, Parsed(YamlNull)} \cup
    {Parsed(YamlMap(p[1] :> YamlMap(p[2] :> v))) : v \in ToValues("def") \cup ToValues("new")}

\* One ConfigManager, nothing cached; a keychain entry for the pair, the
\* variable unset, config.yaml in any of its states.
InitCache ==
    /\ is_macos \in BOOLEAN
    /\ \E p \in CachePairs :
         /\ Populated({p}, [q \in {p} |-> None], [q \in {p} |-> "kc1"])
         /\ file \in CacheFiles(p)
    /\ default_config = NoDict
    /\ last = [op |-> "init"]
    /\ Undisturbed

\* config.yaml is rewritten, created or removed.
ChangeFile ==
    \E p \in InPlay :
      \E f \in CacheFiles(p) \ {file} :
        /\ file' = f
        /\ last' = [op |-> "write config.yaml"]
        /\ UNCHANGED <<is_macos, env, keychain, default_config, surroundings>>

\* cm = ConfigManager(): a new instance with _default_config = None; the
\* instance in use until now stays alive.
NewConfigManager ==
    /\ Len(others) + 1 < MaxInstances
    /\ others' = Append(others, default_config)
    /\ default_config' = NoDict
    /\ last' = [op |-> "ConfigManager"]
    /\ UNCHANGED <<is_macos, env, keychain, file, keyring_raises, warnings,
                   connector, vendor_connects, closes, conduit, with_entered>>

\* The caller turns to another instance it holds.
UseOtherConfigManager ==
    \E i \in DOMAIN others :
        /\ default_config' = others[i]
        /\ others' = [others EXCEPT ![i] = default_config]
        /\ last' = [op |-> "use other ConfigManager"]
        /\ UNCHANGED <<is_macos, env, keychain, file, keyring_raises, warnings,
                       connector, vendor_connects, closes, conduit, with_entered>>

\* Lookups on the instance in use, between changes of config.yaml and of
\* the instance.
NextCache ==
    \/ GetConfigValue
    \/ ChangeFile
    \/ NewConfigManager
    \/ UseOtherConfigManager

SpecCache == InitCache /\ [][NextCache]_vars

(* ------------------------------------------------------------ connectors *)

\* dict.get(key): None when the key is not there.
dict_get(d, key) == IF key \in DOMAIN d THEN d[key] ELSE None

\* SnowflakeConnector.__init__, the validation: the parameters the raised
\* ValueError's message names, none when nothing is raised.  The account is
\* tested first and raises alone; the warehouse is tested after it.
snowflake_validation(config) ==
    IF ~Truthy(dict_get(config, "account")) THEN {"account"}
    ELSE IF ~Truthy(dict_get(config, "warehouse")) THEN {"warehouse"}
    ELSE {}

\* DatabricksConnector.connect: required_params.
required_params == <<"server_hostname", "http_path", "access_token">>

\* DatabricksConnector.connect: missing_params, the parameters the raised
\* error's message lists.
missing_params(config) ==
    {required_params[i] : i \in {j \in DOMAIN required_params :
                                    ~Truthy(dict_get(config, required_params[j]))}}

\* The override mappings the connectors are constructed with.
SnowflakeOverrides ==
    {NoDict, Some("account" :> ""), Some("warehouse" :> "fn1"),
     Some(("account" :> "fn1") @@ ("warehouse" :> "fn1")),
     Some(("account" :> "fn1") @@ ("warehouse" :> "fn1") @@ ("role" :> "fn1"))}

DatabricksOverrides ==
    {NoDict, Some("http_path" :> "fn1"),
     Some(("server_hostname" :> "fn1") @@ ("http_path" :> "fn1")),
     Some(("server_hostname" :> "fn1") @@ ("http_path" :> "fn1") @@
          ("access_token" :> "fn1") @@ ("role" :> "fn1"))}

\* The parameters the connectors require.
RequiredPairs ==
    {<<"snowflake", "account">>, <<"snowflake", "warehouse">>} \cup
    {<<"databricks", required_params[i]>> : i \in DOMAIN required_params}

\* No connector yet; at most one required parameter in the environment,
\* config.yaml missing or holding the snowflake account and warehouse.
InitConnect ==
    /\ is_macos \in BOOLEAN
    /\ \E S \in {{}} \cup {{p} : p \in RequiredPairs} :
         \E ev \in [S -> EnvValues \cup {None}] :
              Populated(S, ev, [p \in S |-> None])
    /\ file \in {Missing, ExampleFile}
    /\ default_config = NoDict
    /\ last = [op |-> "init"]
    /\ Undisturbed

\* SnowflakeConnector(username, config): a ConfigManager of its own resolves
\* the configuration, then account and warehouse are validated.
NewSnowflakeConnector ==
    \E config \in SnowflakeOverrides :
        LET resolved_config == get_snowflake_config("carol", config, HostNotAsked).value
            named == snowflake_validation(resolved_config)
        IN  /\ connector' = IF named = {}
                            THEN [kind |-> "snowflake", config |-> resolved_config,
                                  connection |-> None]
                            ELSE NoConnector
            /\ UNCHANGED <<is_macos, env, keychain, file, default_config,
                           keyring_raises, warnings, others, vendor_connects, closes, conduit, with_entered>>
            /\ last' = [op |-> "SnowflakeConnector", given |-> config,
                        config |-> resolved_config,
                        result |-> IF named = {} THEN Return(None) ELSE Raise("ValueError"),
                        named |-> named,
                        attempts |-> vendor_connects' - vendor_connects]

\* DatabricksConnector(config): the configuration is resolved, nothing is
\* validated yet.
NewDatabricksConnector ==
    \E config \in DatabricksOverrides :
        /\ connector' = [kind |-> "databricks",
                         config |-> get_databricks_config(config).value,
                         connection |-> None]
        /\ last' = [op |-> "DatabricksConnector", given |-> config,
                    result |-> Return(None)]
        /\ UNCHANGED <<is_macos, env, keychain, file, default_config,
                       keyring_raises, warnings, others, vendor_connects, closes, conduit, with_entered>>

\* "if self._connection": a vendor connection object is truthy, None is not.
holds_connection(c) == c.connection # None

\* SnowflakeConnector.connect: optional_params.
optional_params ==
    {"password", "private_key_path", "private_key_passphrase",
     "authenticator", "warehouse", "database", "schema", "role"}

\* S3Connector.connect: the keys copied into session_params when truthy.
session_keys ==
    {"aws_access_key_id", "aws_secret_access_key", "aws_session_token", "region_name"}

\* The keyword arguments the vendor's connect (boto3.Session for S3) is
\* called with.
connection_params(c) ==
    CASE c.kind = "snowflake" ->
            [k \in {"account", "user"} \cup (optional_params \cap DOMAIN c.config) |->
                dict_get(c.config, k)]
      [] c.kind = "databricks" ->
            [k \in {"server_hostname", "http_path", "access_token"} |-> c.config[k]]
      [] c.kind = "s3" ->
            [k \in {x \in session_keys : Truthy(dict_get(c.config, x))} |-> c.config[k]]

\* How the vendor answers a connect: a connection, or an exception; for S3
\* the session and client may be made and the list_buckets test then raise.
VendorOutcomes(kind) ==
    IF kind = "s3" THEN {"ok", "raises", "list_buckets_raises"} ELSE {"ok", "raises"}

\* The i-th connection object a vendor hands out.
Connection(i) == "<connection " \o ToString(i) \o ">"

\* The connection the vendor hands out next, and the close() counts with it
\* added, not yet closed.
next_connection(counts) == Connection(Cardinality(DOMAIN counts) + 1)
handed_out(counts) == counts @@ (next_connection(counts) :> 0)

\* The objects a connector call works on: the connector, the close() calls
\* each vendor connection handed out has had, and the vendor connects made.
Held == [connector |-> connector, closes |-> closes, vendor_connects |-> vendor_connects]

\* Mutant: connect asks the vendor for a connection even when one is held.
connect_always(o, vendor) ==
    LET c == o.connector
        tried == [o EXCEPT !.vendor_connects = @ + 1]
        made == [tried EXCEPT !.closes = handed_out(@),
                              !.connector.connection = next_connection(o.closes)]
    IN  IF c.kind = "databricks" /\ missing_params(c.config) # {}
        THEN [o |-> o, result |-> Raise("ConnectionError"),
              named |-> missing_params(c.config), params |-> EmptyDict]
        ELSE IF vendor = "raises"
        THEN [o |-> tried, result |-> Raise("ConnectionError"), named |-> {},
              params |-> connection_params(c)]
        ELSE IF vendor = "list_buckets_raises"
        THEN [o |-> made, result |-> Raise("ConnectionError"), named |-> {},
              params |-> connection_params(c)]
        ELSE [o |-> made, result |-> Return(None), named |-> {},
              params |-> connection_params(c)]

\* connect() of the three connectors: nothing when a connection is held;
\* for Databricks ConnectionError around the ValueError listing
\* missing_params; else the vendor's connect, whose exception is re-raised as
\* ConnectionError and whose connection is stored.  S3Connector stores the
\* client in self._connection before the list_buckets test, so a test that
\* raises leaves it stored.
connect(o, vendor) ==
    LET c == o.connector
        tried == [o EXCEPT !.vendor_connects = @ + 1]
        made == [tried EXCEPT !.closes = handed_out(@),
                              !.connector.connection = next_connection(o.closes)]
    IN  IF holds_connection(c)
        THEN [o |-> o, result |-> Return(None), named |-> {}, params |-> EmptyDict]
        ELSE IF c.kind = "databricks" /\ missing_params(c.config) # {}
        THEN [o |-> o, result |-> Raise("ConnectionError"),
              named |-> missing_params(c.config), params |-> EmptyDict]
        ELSE IF vendor = "raises"
        THEN [o |-> tried, result |-> Raise("ConnectionError"), named |-> {},
              params |-> connection_params(c)]
        ELSE IF vendor = "list_buckets_raises"
        THEN [o |-> made, result |-> Raise("ConnectionError"), named |-> {},
              params |-> connection_params(c)]
        ELSE [o |-> made, result |-> Return(None), named |-> {},
              params |-> connection_params(c)]

\* The state after a connector call that ended in `done`.
Becomes(done) ==
    /\ done.o.vendor_connects <= MaxConnects
    /\ connector' = done.o.connector
    /\ closes' = done.o.closes
    /\ vendor_connects' = done.o.vendor_connects
    /\ UNCHANGED <<is_macos, env, keychain, file, default_config,
                   keyring_raises, warnings, others, conduit, with_entered>>

\* DatabricksConnector.connect().
DatabricksConnect ==
    /\ connector.kind = "databricks"
    /\ \E vendor \in VendorOutcomes("databricks") :
        LET done == connect(Held, vendor)
        IN  /\ Becomes(done)
            /\ last' = [op |-> "DatabricksConnector.connect",
                        config |-> connector.config,
                        result |-> done.result,
                        named |-> done.named,
                        params |-> done.params,
                        attempts |-> vendor_connects' - vendor_connects]

\* SnowflakeConnector.connect().
SnowflakeConnect ==
    /\ connector.kind = "snowflake"
    /\ \E vendor \in VendorOutcomes("snowflake") :
        LET done == connect(Held, vendor)
        IN  /\ Becomes(done)
            /\ last' = [op |-> "SnowflakeConnector.connect",
                        config |-> connector.config,
                        result |-> done.result,
                        named |-> done.named,
                        params |-> done.params,
                        attempts |-> vendor_connects' - vendor_connects]

\* Construction and connect of the two SQL connectors.
NextConnect ==
    \/ NewSnowflakeConnector
    \/ NewDatabricksConnector
    \/ DatabricksConnect
    \/ SnowflakeConnect

SpecConnect == InitConnect /\ [][NextConnect]_vars

(* -------------------------------------------------- connection lifecycle *)

\* BaseConnector.is_connected: "self._connection is not None".
is_connected(c) == c.connection # None

\* Mutant: disconnect forgetting the connection without closing it.
disconnect_without_close(o) ==
    [o |-> [o EXCEPT !.connector.connection = None], result |-> Return(None)]

\* disconnect(): SnowflakeConnector and DatabricksConnector close a held
\* connection and clear it, and do nothing without one; S3Connector clears
\* its references and closes nothing.
disconnect(o) ==
    LET c == o.connector
    IN  IF c.kind = "s3"
        THEN [o |-> [o EXCEPT !.connector.connection = None], result |-> Return(None)]
        ELSE IF holds_connection(c)
        THEN [o |-> [o EXCEPT !.closes[c.connection] = @ + 1,
                              !.connector.connection = None],
              result |-> Return(None)]
        ELSE [o |-> o, result |-> Return(None)]

\* The operations of the S3 client that S3Connector.execute is asked for.
s3_client_operations == {"list_buckets", "list_objects_v2"}

\* Whether the call reaches the vendor: a SQL connector hands every query
\* to its cursor; S3Connector.execute takes the name of a client operation,
\* and getattr raises for a name the client has not.
reaches_vendor(kind, query) == kind # "s3" \/ query \in s3_client_operations

\* execute(query): connect() first when no connection is held (its
\* ConnectionError propagates), then the statement goes to the held
\* connection (for S3, the operation of that name is called); an error there
\* is re-raised as RuntimeError.  `issued` is what reached the vendor,
\* `connected` whether connect() was called.
execute(o, query, vendor, query_ok) ==
    LET needed == ~holds_connection(o.connector)
        first == IF needed THEN connect(o, vendor)
                 ELSE [o |-> o, result |-> Return(None)]
    IN  IF first.result.kind = "raise"
        THEN [o |-> first.o, result |-> first.result, issued |-> <<>>,
              connected |-> needed, on |-> None]
        ELSE IF ~reaches_vendor(o.connector.kind, query)
        THEN [o |-> first.o, result |-> Raise("RuntimeError"), issued |-> <<>>,
              connected |-> needed, on |-> None]
        ELSE [o |-> first.o,
              result |-> IF query_ok THEN Return("rows") ELSE Raise("RuntimeError"),
              issued |-> <<query>>, connected |-> needed,
              on |-> first.o.connector.connection]

\* How the body of a with statement ends: normally (no exception type), or
\* by an exception.
BodyOutcomes == {None, "BodyError"}

\* BaseConnector.__enter__: connect, and hand the connector to the body.
\* An exception of connect() ends the statement before the body.
__enter__(o, vendor) == connect(o, vendor)

\* BaseConnector.__exit__: disconnect. It returns None, so an exception of
\* the body goes on to the caller.
__exit__(o, exc_type) ==
    LET left == disconnect(o)
    IN  [o |-> left.o,
         result |-> IF exc_type = None THEN Return(None) ELSE Raise(exc_type)]

\* The override mappings an S3Connector is constructed with.
S3Overrides == {NoDict, Some(("region_name" :> "fn1") @@ ("endpoint_url" :> "fn1"))}

\* S3Connector(config): the configuration is resolved, nothing is validated.
NewS3Connector ==
    \E config \in S3Overrides :
        /\ connector' = [kind |-> "s3", config |-> get_s3_config(config).value,
                         connection |-> None]
        /\ last' = [op |-> "S3Connector", given |-> config, result |-> Return(None)]
        /\ UNCHANGED <<is_macos, env, keychain, file, default_config,
                       keyring_raises, warnings, others, vendor_connects, closes, conduit, with_entered>>

\* One connector is constructed, and then used.
Construct ==
    /\ connector = NoConnector
    /\ \/ NewSnowflakeConnector
       \/ NewDatabricksConnector
       \/ NewS3Connector

\* S3Connector.connect().
S3Connect ==
    /\ connector.kind = "s3"
    /\ \E vendor \in VendorOutcomes("s3") :
        LET done == connect(Held, vendor)
        IN  /\ Becomes(done)
            /\ last' = [op |-> "S3Connector.connect",
                        config |-> connector.config,
                        result |-> done.result,
                        named |-> done.named,
                        params |-> done.params,
                        attempts |-> vendor_connects' - vendor_connects]

\* connector.disconnect().
Disconnect ==
    /\ connector.kind # "none"
    /\ LET done == disconnect(Held)
       IN  /\ Becomes(done)
           /\ last' = [op |-> "disconnect", kind |-> connector.kind,
                       held |-> connector.connection, result |-> done.result]

\* What execute is called with: a statement, and for S3 an operation of
\* the client as well.
Queries(kind) == IF kind = "s3" THEN {"SELECT 1", "list_objects_v2"} ELSE {"SELECT 1"}

\* connector.execute(query).
Execute ==
    /\ connector.kind # "none"
    /\ \E vendor \in VendorOutcomes(connector.kind), query_ok \in BOOLEAN,
          query \in Queries(connector.kind) :
        LET done == execute(Held, query, vendor, query_ok)
        IN  /\ Becomes(done)
            /\ last' = [op |-> "execute", kind |-> connector.kind,
                        held |-> connector.connection,
                        connected |-> done.connected, issued |-> done.issued,
                        on |-> done.on, result |-> done.result,
                        attempts |-> vendor_connects' - vendor_connects]

\* The caller reaches "with connector:" and __enter__ runs. Of the statement
\* the caller keeps what it held before and what __enter__ left it holding.
Enter ==
    /\ connector.kind # "none"
    /\ with_entered = NotEntered
    /\ \E vendor \in VendorOutcomes(connector.kind) :
        LET done == __enter__(Held, vendor)
        IN  /\ done.o.vendor_connects <= MaxConnects
            /\ connector' = done.o.connector
            /\ closes' = done.o.closes
            /\ vendor_connects' = done.o.vendor_connects
            /\ with_entered' = IF done.result.kind = "raise" THEN NotEntered
                               ELSE <<[held |-> connector.connection,
                                       connection |-> done.o.connector.connection]>>
            /\ last' = [op |-> "__enter__", kind |-> connector.kind,
                        held |-> connector.connection, result |-> done.result,
                        attempts |-> vendor_connects' - vendor_connects]
            /\ UNCHANGED <<is_macos, env, keychain, file, default_config,
                           keyring_raises, warnings, others, conduit>>

\* The body of the with statement ends, normally or by an exception, and
\* __exit__ runs. The calls of the body are the connector's other actions,
\* taken between Enter and Exit.
Exit ==
    /\ with_entered # NotEntered
    /\ \E exc_type \in BodyOutcomes :
        LET done == __exit__(Held, exc_type)
        IN  /\ connector' = done.o.connector
            /\ closes' = done.o.closes
            /\ vendor_connects' = done.o.vendor_connects
            /\ with_entered' = NotEntered
            /\ last' = [op |-> "__exit__", kind |-> connector.kind,
                        entry |-> with_entered[1],
                        held |-> connector.connection, exc_type |-> exc_type,
                        result |-> done.result]
            /\ UNCHANGED <<is_macos, env, keychain, file, default_config,
                           keyring_raises, warnings, others, conduit>>

\* A connector, and every sequence of calls on it.
NextLifecycle ==
    \/ Construct
    \/ SnowflakeConnect
    \/ DatabricksConnect
    \/ S3Connect
    \/ Disconnect
    \/ Execute
    \/ Enter
    \/ Exit

SpecLifecycle == InitConnect /\ [][NextLifecycle]_vars

(* ------------------------------------------------------------ CloudConduit *)

\* The j-th connector object constructed through the CloudConduit.
Instance(j) == "<connector " \o ToString(j) \o ">"

\* Mutant: the stored connector is never found.
stored_never(slot) == FALSE

\* "if not self._snowflake" negated: a connector object is truthy, None is
\* not.
stored(slot) == slot # None

\* The constructor behind each accessor: the resolved configuration, and for
\* Snowflake the failed validation (ValueError).
construct(kind, username, config, host) ==
    LET resolved_config ==
            CASE kind = "snowflake" -> get_snowflake_config(username, config, host).value
              [] kind = "databricks" -> get_databricks_config(config).value
              [] kind = "s3" -> get_s3_config(config).value
    IN  IF kind = "snowflake" /\ snowflake_validation(resolved_config) # {}
        THEN Raise("ValueError")
        ELSE Return([kind |-> kind, username |-> username, override |-> config,
                     config |-> resolved_config])

\* CloudConduit.snowflake / databricks / s3: the stored connector when there
\* is one, else a newly constructed one, stored unless its constructor
\* raised.
accessor(cc, kind, username, config, host) ==
    LET slot == "_" \o kind
        made == construct(kind, username, config, host)
    IN  IF stored(cc[slot]) THEN [conduit |-> cc, result |-> Return(cc[slot])]
        ELSE IF made.kind = "raise" THEN [conduit |-> cc, result |-> made]
        ELSE [conduit |-> [cc EXCEPT ![slot] = Instance(Len(cc.constructed) + 1),
                                     !.constructed = Append(@, made.value)],
              result |-> Return(Instance(Len(cc.constructed) + 1))]

\* The backends of a CloudConduit.
Backends == {"snowflake", "databricks", "s3"}

\* The override mappings the accessors are called with.
AccessorConfigs(kind) ==
    CASE kind = "snowflake" -> {NoDict, Some(("account" :> "fn1") @@ ("warehouse" :> "fn1"))}
      [] kind = "databricks" -> {NoDict, Some("http_path" :> "fn1")}
      [] kind = "s3" -> S3Overrides

\* The state after an accessor call that ended in `done`.
Accessed(kind, username, config, done) ==
    /\ conduit' = done.conduit
    /\ last' = [op |-> "CloudConduit." \o kind, kind |-> kind,
                username |-> username, config |-> config,
                result |-> done.result]
    /\ UNCHANGED <<is_macos, env, keychain, file, default_config,
                   keyring_raises, warnings, others, connector,
                   vendor_connects, closes, with_entered>>

\* cc.snowflake(username, config).
ConduitSnowflake ==
    /\ Len(conduit.constructed) <= Cardinality(Backends)
    /\ \E username \in {"carol", "dave"}, config \in AccessorConfigs("snowflake") :
          Accessed("snowflake", username, config,
                   accessor(conduit, "snowflake", username, config, HostNotAsked))

\* cc.databricks(config).
ConduitDatabricks ==
    /\ Len(conduit.constructed) <= Cardinality(Backends)
    /\ \E config \in AccessorConfigs("databricks") :
          Accessed("databricks", None, config,
                   accessor(conduit, "databricks", None, config, HostNotAsked))

\* cc.s3(config).
ConduitS3 ==
    /\ Len(conduit.constructed) <= Cardinality(Backends)
    /\ \E config \in AccessorConfigs("s3") :
          Accessed("s3", None, config,
                   accessor(conduit, "s3", None, config, HostNotAsked))

\* A CloudConduit that has stored nothing; the snowflake account in the
\* environment or not, config.yaml missing or the example.
InitConduit ==
    /\ is_macos = FALSE
    /\ \E ev \in [{<<"snowflake", "account">>} -> {None, "env1"}] :
          Populated({<<"snowflake", "account">>}, ev,
                    [p \in {<<"snowflake", "account">>} |-> None])
    /\ file \in {Missing, ExampleFile}
    /\ default_config = NoDict
    /\ last = [op |-> "init"]
    /\ Undisturbed

\* Any sequence of accessor calls on one CloudConduit.
NextConduit ==
    \/ ConduitSnowflake
    \/ ConduitDatabricks
    \/ ConduitS3

SpecConduit == InitConduit /\ [][NextConduit]_vars

(* ------------------------------------- the current user, the variable names *)

\* What getpass.getuser() and os.getlogin() may do on a host: also a login
\* name that is empty.
SystemHosts ==
    Hosts \cup {[getpass |-> Raise("KeyError"), getlogin |-> Return("")],
                [getpass |-> Return("alice"), getlogin |-> Raise("OSError")]}

\* The value each of USER, USERNAME and LOGNAME holds when it is set.
UserValue == [USER |-> "dave", USERNAME |-> "erin", LOGNAME |-> "frank"]

\* Any host; USER, USERNAME and LOGNAME each unset, empty or set.
InitSystem ==
    /\ is_macos \in BOOLEAN
    /\ \E set \in [UserEnvNames -> {"unset", "empty", "set"}] :
         env = [n \in EnvNames |->
                   IF n \notin UserEnvNames \/ set[n] = "unset" THEN None
                   ELSE IF set[n] = "empty" THEN "" ELSE UserValue[n]]
    /\ keychain = [a \in {service_name} \X KcAccounts |-> None]
    /\ file = Missing
    /\ default_config = NoDict
    /\ last = [op |-> "init"]
    /\ Undisturbed

\* system_info.get_current_user().
GetCurrentUser ==
    \E host \in SystemHosts :
        /\ last' = [op |-> "get_current_user", host |-> host,
                    result |-> Return(get_current_user(host))]
        /\ UNCHANGED <<is_macos, env, keychain, file, default_config, surroundings>>

\* cm._get_env_key(service, key).
GetEnvKey ==
    \E p \in Pairs :
        /\ last' = [op |-> "_get_env_key", service |-> p[1], key |-> p[2],
                    result |-> Return(_get_env_key(p[1], p[2]))]
        /\ UNCHANGED <<is_macos, env, keychain, file, default_config, surroundings>>

\* The two pure helpers.
NextSystem ==
    \/ GetCurrentUser
    \/ GetEnvKey

SpecSystem == InitSystem /\ [][NextSystem]_vars

(* ------------------------------------------------- the two S3 resolvers *)

\* x or "us-east-1".
or_default(value, default) == IF Truthy(value) THEN value ELSE default

\* Mutant: region_name without the literal fallback.
CredentialManager_get_s3_credentials_no_fallback ==
    [aws_access_key_id |-> CredentialManager_get_credential("AWS_ACCESS_KEY_ID").value,
     aws_secret_access_key |-> CredentialManager_get_credential("AWS_SECRET_ACCESS_KEY").value,
     aws_session_token |-> CredentialManager_get_credential("AWS_SESSION_TOKEN").value,
     region_name |-> CredentialManager_get_credential("AWS_DEFAULT_REGION").value]

\* CredentialManager.get_s3_credentials: four get_credential calls, None
\* values kept, region_name falling back to "us-east-1".
CredentialManager_get_s3_credentials ==
    [aws_access_key_id |-> CredentialManager_get_credential("AWS_ACCESS_KEY_ID").value,
     aws_secret_access_key |-> CredentialManager_get_credential("AWS_SECRET_ACCESS_KEY").value,
     aws_session_token |-> CredentialManager_get_credential("AWS_SESSION_TOKEN").value,
     region_name |-> or_default(
         CredentialManager_get_credential("AWS_DEFAULT_REGION").value, "us-east-1")]

\* credential_manager.get_s3_credentials().
GetS3Credentials ==
    /\ "s3" \in QueryServices
    /\ last' = [op |-> "get_s3_credentials",
                result |-> Return(CredentialManager_get_s3_credentials)]
    /\ UNCHANGED <<is_macos, env, keychain, file, default_config, surroundings>>

\* The two resolvers of the S3 parameters.
NextS3 ==
    \/ GetS3Config
    \/ GetS3Credentials

SpecS3 == Init /\ [][NextS3]_vars

(* ------------------------------- the simple resolver's Snowflake credentials *)

\* The entries get_snowflake_credentials puts in `config` before the
\* authentication parameters.
snowflake_credentials_base(username) ==
    [user |-> username,
     account |-> CredentialManager_get_credential("SNOWFLAKE_ACCOUNT").value,
     warehouse |-> CredentialManager_get_credential("SNOWFLAKE_WAREHOUSE").value,
     database |-> CredentialManager_get_credential("SNOWFLAKE_DATABASE").value,
     schema |-> CredentialManager_get_credential("SNOWFLAKE_SCHEMA").value]

\* "if authenticator: config['authenticator'] = authenticator".
snowflake_credentials_sso ==
    LET authenticator == CredentialManager_get_credential("SNOWFLAKE_AUTHENTICATOR").value
    IN  IF Truthy(authenticator) THEN [authenticator |-> authenticator] ELSE EmptyDict

\* Mutant: the private key is added whether or not a password was found.
snowflake_credentials_auth_both ==
    LET password == CredentialManager_get_credential("SNOWFLAKE_PASSWORD").value
        private_key_path == CredentialManager_get_credential("SNOWFLAKE_PRIVATE_KEY_PATH").value
    IN  (IF Truthy(password) THEN [password |-> password] ELSE EmptyDict) @@
        (IF Truthy(private_key_path) THEN [private_key_path |-> private_key_path]
         ELSE EmptyDict)

\* "if password: ... elif private_key_path: ... if private_key_passphrase:".
snowflake_credentials_auth ==
    LET password == CredentialManager_get_credential("SNOWFLAKE_PASSWORD").value
        private_key_path == CredentialManager_get_credential("SNOWFLAKE_PRIVATE_KEY_PATH").value
        private_key_passphrase ==
            CredentialManager_get_credential("SNOWFLAKE_PRIVATE_KEY_PASSPHRASE").value
    IN  IF Truthy(password) THEN [password |-> password]
        ELSE IF Truthy(private_key_path)
        THEN IF Truthy(private_key_passphrase)
             THEN [private_key_path |-> private_key_path,
                   private_key_passphrase |-> private_key_passphrase]
             ELSE [private_key_path |-> private_key_path]
        ELSE EmptyDict

\* CredentialManager.get_snowflake_credentials.
CredentialManager_get_snowflake_credentials(host) ==
    remove_none(snowflake_credentials_base(get_current_user(host)) @@
                snowflake_credentials_auth @@ snowflake_credentials_sso)

\* The parameters whose sources the scenarios of this resolver populate.
CredentialPairs ==
    {<<"snowflake", "password">>, <<"snowflake", "private_key_path">>,
     <<"snowflake", "private_key_passphrase">>, <<"snowflake", "account">>}

\* Each of them unset, or set in the environment, or in the keychain (there
\* possibly to the empty string), or in both.
InitCredentials ==
    /\ is_macos \in BOOLEAN
    /\ \E ev \in [CredentialPairs -> {None, "env1"}],
          kv \in [CredentialPairs -> {None, "", "kc1"}] :
            Populated(CredentialPairs, ev, kv)
    /\ file = Missing
    /\ default_config = NoDict
    /\ last = [op |-> "init"]
    /\ Undisturbed

\* credential_manager.get_snowflake_credentials().
GetSnowflakeCredentials ==
    \E host \in Hosts :
        /\ last' = [op |-> "get_snowflake_credentials", host |-> host,
                    result |-> Return(CredentialManager_get_snowflake_credentials(host))]
        /\ UNCHANGED <<is_macos, env, keychain, file, default_config, surroundings>>

\* The simple resolver's Snowflake credentials, and the reads behind them.
NextCredentials ==
    \/ GetSnowflakeCredentials
    \/ GetCredential

SpecCredentials == InitCredentials /\ [][NextCredentials]_vars

(* ------------------------------------------------- copy_table, upload_df *)

\* str.split("."), str.upper() of the table names of the model.
SplitTable ==
    [target_table |-> <<"target_table">>] @@
    ("analytics.target_table" :> <<"analytics", "target_table">>) @@
    ("prod.analytics.target_table" :> <<"prod", "analytics", "target_table">>)
TableUpperTable ==
    [target_table |-> "TARGET_TABLE"] @@
    ("analytics.target_table" :> "ANALYTICS.TARGET_TABLE") @@
    ("prod.analytics.target_table" :> "PROD.ANALYTICS.TARGET_TABLE")
split(name) == SplitTable[name]
table_upper(name) == TableUpperTable[name]

\* ".".join(parts).
RECURSIVE join(_)
join(parts) ==
    IF Len(parts) = 1 THEN parts[1]
    ELSE parts[1] \o "." \o join(Tail(parts))

\* The target names, unqualified and qualified.
TableNames == DOMAIN SplitTable

\* The statements a connector sends: `verb` and the names in the text; for
\* an existence check, `finds` is whether its filter selects the target
\* table when the vendor has it.
drop_query(table) == [verb |-> "DROP TABLE IF EXISTS", table |-> table]
create_as_query(target, source) ==
    [verb |-> "CREATE TABLE AS SELECT", table |-> target, source |-> source]
create_query(table) == [verb |-> "CREATE TABLE IF NOT EXISTS", table |-> table]
insert_query(table, rows) == [verb |-> "INSERT INTO", table |-> table, rows |-> rows]

\* SnowflakeConnector.copy_table: INFORMATION_SCHEMA.TABLES filtered by
\* TABLE_NAME = '<target.upper()>'; TABLE_NAME holds a table's own name.
snowflake_check_query(target) ==
    [verb |-> "SELECT COUNT(*) FROM INFORMATION_SCHEMA.TABLES",
     table_name |-> table_upper(target),
     finds |-> table_upper(target) = table_upper(split(target)[Len(split(target))])]

\* "SHOW TABLES IN {catalog_schema} LIKE '{table_name}'".
show_tables_query(catalog_schema, table_name) ==
    [verb |-> "SHOW TABLES", in |-> catalog_schema, like |-> table_name,
     finds |-> TRUE]

\* The vendor's answer to a statement when the target table exists or not:
\* whether it raises, whether the table exists afterwards, and whether the
\* rows of a check are there.
vendor_answer(exists, q) ==
    CASE q.verb = "DROP TABLE IF EXISTS" -> [ok |-> TRUE, exists |-> FALSE, found |-> FALSE]
      [] q.verb = "CREATE TABLE AS SELECT" ->
            [ok |-> ~exists, exists |-> TRUE, found |-> FALSE]
      [] q.verb = "CREATE TABLE IF NOT EXISTS" ->
            [ok |-> TRUE, exists |-> TRUE, found |-> FALSE]
      [] q.verb = "INSERT INTO" -> [ok |-> TRUE, exists |-> exists, found |-> FALSE]
      [] OTHER -> [ok |-> TRUE, exists |-> exists, found |-> exists /\ q.finds]

\* A call in progress: the connector objects, the target table at the
\* vendor, the statements sent, how the call stands, the latest check.
Started(o, exists) ==
    [o |-> o, exists |-> exists, issued |-> <<>>, result |-> Return(None), found |-> FALSE]

\* self.execute(q) as the next step of a call, skipped once it has raised.
then_execute(acc, q, vendor) ==
    IF acc.result.kind = "raise" THEN acc
    ELSE LET answer == vendor_answer(acc.exists, q)
             done == execute(acc.o, q, vendor, answer.ok)
         IN  [o |-> done.o,
              exists |-> IF done.issued # <<>> THEN answer.exists ELSE acc.exists,
              issued |-> acc.issued \o done.issued,
              result |-> IF done.result.kind = "raise" THEN done.result ELSE Return(None),
              found |-> done.result.kind = "return" /\ answer.found]

\* "raise RuntimeError(...)" when the check found the table.
then_fail_if_found(acc) ==
    IF acc.result.kind = "return" /\ acc.found
    THEN [acc EXCEPT !.result = Raise("RuntimeError")]
    ELSE acc

\* SnowflakeConnector.copy_table / DatabricksConnector.copy_table: the
\* Databricks check is made only for a target of two parts or more.
copy_table(o, source, target, if_exists, exists, vendor) ==
    LET begun == Started(o, exists)
        parts == split(target)
        prepared ==
            IF if_exists = "replace" THEN then_execute(begun, drop_query(target), vendor)
            ELSE IF if_exists # "fail" THEN begun
            ELSE IF o.connector.kind = "snowflake"
            THEN then_fail_if_found(
                     then_execute(begun, snowflake_check_query(target), vendor))
            ELSE IF Len(parts) >= 2
            THEN then_fail_if_found(
                     then_execute(begun,
                         show_tables_query(join(SubSeq(parts, 1, Len(parts) - 1)),
                                           parts[Len(parts)]),
                         vendor))
            ELSE begun
    IN  then_execute(prepared, create_as_query(target, source), vendor)

\* The table operations.  No operation reads what the last call was, and a
\* table operation leaves the connector as connect() does, so a run takes
\* each of them from a state a lifecycle call has left.
TableOps == {"copy_table", "upload_df"}

\* connector.copy_table(source_table, target_table, if_exists).
CopyTable ==
    /\ connector.kind \in {"snowflake", "databricks"}
    /\ last.op \notin TableOps
    /\ \E target \in TableNames, if_exists \in {"replace", "fail", "append"},
          exists \in BOOLEAN, vendor \in {"ok", "raises"} :
        LET done == copy_table(Held, "source_table", target, if_exists, exists, vendor)
        IN  /\ Becomes(done)
            /\ last' = [op |-> "copy_table", kind |-> connector.kind,
                        source |-> "source_table", target |-> target,
                        if_exists |-> if_exists, existed |-> exists,
                        issued |-> done.issued, result |-> done.result]

\* dict.get(key, default).
dict_get_default(d, key, default) == IF key \in DOMAIN d THEN d[key] ELSE default

\* DatabricksConnector.upload_df: the catalog, schema and table a name
\* stands for; three parts give all, two the schema and table, else the
\* configuration's catalog and schema (or "main" and "default") are kept.
full_table_name(config, table_name) ==
    LET parts == split(table_name)
        catalog == IF Len(parts) = 3 THEN parts[1]
                   ELSE dict_get_default(config, "catalog", "main")
        schema == IF Len(parts) = 3 THEN parts[2]
                  ELSE IF Len(parts) = 2 THEN parts[1]
                  ELSE dict_get_default(config, "schema", "default")
        name == IF Len(parts) \in {2, 3} THEN parts[Len(parts)] ELSE table_name
    IN  [catalog |-> catalog, schema |-> schema, table_name |-> name,
         full |-> catalog \o "." \o schema \o "." \o name]

\* Mutant: each batch starts one row after the end of the one before.
RECURSIVE batches_skipping(_, _, _)
batches_skipping(start_idx, n, batch_size) ==
    IF start_idx >= n THEN <<>>
    ELSE LET end_idx == IF start_idx + batch_size < n THEN start_idx + batch_size ELSE n
         IN  <<[i \in 1..(end_idx - start_idx) |-> start_idx + i]>> \o
             batches_skipping(start_idx + batch_size + 1, n, batch_size)

\* "for start_idx in range(0, len(df), batch_size)": the rows
\* df.iloc[start_idx:end_idx] of each batch, rows numbered from 1.
RECURSIVE batches(_, _, _)
batches(start_idx, n, batch_size) ==
    IF start_idx >= n THEN <<>>
    ELSE LET end_idx == IF start_idx + batch_size < n THEN start_idx + batch_size ELSE n
         IN  <<[i \in 1..(end_idx - start_idx) |-> start_idx + i]>> \o
             batches(start_idx + batch_size, n, batch_size)

\* cursor.execute(q) on the held connection as the next step of a call; the
\* vendor raises on it when `ok` is false.
then_cursor_execute(acc, q, ok) ==
    IF acc.result.kind = "raise" THEN acc
    ELSE [acc EXCEPT !.issued = Append(@, q),
                     !.exists = vendor_answer(acc.exists, q).exists,
                     !.result = IF ok THEN Return(None) ELSE Raise("Error")]

\* The INSERT of each batch in turn; the fail_at-th one raises at the vendor.
RECURSIVE then_insert(_, _, _, _, _)
then_insert(acc, table, todo, k, fail_at) ==
    IF todo = <<>> THEN acc
    ELSE then_insert(then_cursor_execute(acc, insert_query(table, Head(todo)), k # fail_at),
                     table, Tail(todo), k + 1, fail_at)

\* "except Exception as e: raise RuntimeError(...)".
as_runtime_error(acc) ==
    IF acc.result.kind = "raise" THEN [acc EXCEPT !.result = Raise("RuntimeError")]
    ELSE acc

\* DatabricksConnector.upload_df(df, table_name, if_exists, batch_size=...):
\* connect() outside the try; then the drop or the existence check, the
\* CREATE TABLE IF NOT EXISTS and the batches, every exception among them
\* re-raised as RuntimeError.  range() raises on a batch_size of 0.
upload_df(o, n, table_name, if_exists, batch_size, exists, vendor, fail_at) ==
    LET entered == connect(o, vendor)
        name == full_table_name(o.connector.config, table_name)
        begun == Started(entered.o, exists)
        prepared ==
            IF if_exists = "replace" THEN then_execute(begun, drop_query(name.full), vendor)
            ELSE IF if_exists = "fail"
            THEN then_fail_if_found(
                     then_execute(begun,
                         show_tables_query(name.catalog \o "." \o name.schema,
                                           name.table_name),
                         vendor))
            ELSE begun
        created == then_cursor_execute(prepared, create_query(name.full), TRUE)
        inserted ==
            IF created.result.kind = "raise" THEN created
            ELSE IF batch_size = 0 THEN [created EXCEPT !.result = Raise("ValueError")]
            ELSE then_insert(created, name.full, batches(0, n, batch_size), 1, fail_at)
    IN  IF entered.result.kind = "raise"
        THEN [begun EXCEPT !.result = entered.result]
        ELSE as_runtime_error(inserted)

\* connector.upload_df(df, table_name, if_exists, batch_size) on Databricks.
UploadDf ==
    /\ connector.kind = "databricks"
    /\ last.op \notin TableOps
    /\ \E n \in 0..MaxRows, batch_size \in 0..MaxBatch, table_name \in TableNames,
          if_exists \in {"replace", "fail", "append"}, exists \in BOOLEAN,
          vendor \in {"ok", "raises"}, fail_at \in 0..2 :
        LET done == upload_df(Held, n, table_name, if_exists, batch_size, exists,
                              vendor, fail_at)
        IN  /\ Becomes(done)
            /\ last' = [op |-> "upload_df", kind |-> connector.kind, rows |-> n,
                        batch_size |-> batch_size, table_name |-> table_name,
                        if_exists |-> if_exists, existed |-> exists,
                        issued |-> done.issued, result |-> done.result]

\* No connector yet, nothing in the environment, config.yaml missing or the
\* example.
InitTables ==
    /\ is_macos = FALSE
    /\ Populated({}, <<>>, <<>>)
    /\ file \in {Missing, ExampleFile}
    /\ default_config = NoDict
    /\ last = [op |-> "init"]
    /\ Undisturbed

\* A connector, its lifecycle, and table copies and uploads through it.
NextTables ==
    \/ Construct
    \/ SnowflakeConnect
    \/ DatabricksConnect
    \/ Disconnect
    \/ CopyTable
    \/ UploadDf

SpecTables == InitTables /\ [][NextTables]_vars

(* ---------------------------------------------------------------- claims *)

\* What each source holds for a pair, read off the state.
OverrideHas(config, key) == config # NoDict /\ key \in DOMAIN config[1]
EnvOf(p) == env[EnvKeyOf(p)]
KeychainOf(p) == keychain[AccountOf(p)]
FileDefault(p) == IF InFile(p) THEN file.content.m[p[1]].m[p[2]] ELSE None
NonEmpty(v) == v # None /\ v # ""

IsLookup == last.op = "get_config_value"
LookupPair == <<last.service, last.key>>
Aggregators == {"get_snowflake_config", "get_databricks_config", "get_s3_config"}
IsAggregate == last.op \in Aggregators

\* C1: on a host with the keychain, a credential lookup returns the override
\* value when all four sources hold distinct non-empty values; the
\* environment value once the key is not in the override; the keychain value
\* once the variable is also unset; the defaults value once the keychain
\* entry is also gone; None once the defaults entry is gone too.
C1_PriorityOrder ==
    (IsLookup /\ last.is_credential /\ is_macos) =>
        LET ov == OverrideHas(last.config, last.key)
            e == EnvOf(LookupPair)
            kc == KeychainOf(LookupPair)
            d == FileDefault(LookupPair)
        IN  /\ (/\ ov
                /\ NonEmpty(last.config[1][last.key])
                /\ NonEmpty(e) /\ NonEmpty(kc) /\ NonEmpty(d)
                /\ Cardinality({last.config[1][last.key], e, kc, d}) = 4)
                    => last.result = Return(last.config[1][last.key])
            /\ (~ov /\ NonEmpty(e) /\ NonEmpty(kc) /\ NonEmpty(d))
                    => last.result = Return(e)
            /\ (~ov /\ e = None /\ NonEmpty(kc) /\ NonEmpty(d))
                    => last.result = Return(kc)
            /\ (~ov /\ e = None /\ kc = None /\ NonEmpty(d))
                    => last.result = Return(d)
            /\ (~ov /\ e = None /\ kc = None /\ d = None)
                    => last.result = Return(None)

\* C1 witness: a credential lookup answered from the keychain, with a
\* defaults value below it and nothing above it.
C1_Witness ==
    /\ IsLookup /\ last.is_credential /\ is_macos
    /\ ~OverrideHas(last.config, last.key)
    /\ EnvOf(LookupPair) = None
    /\ KeychainOf(LookupPair) = "kc1"
    /\ FileDefault(LookupPair) = "def1"
    /\ last.result = Return("kc1")

\* C2: a lookup with is_credential = false whose key is neither in the
\* override nor set in the environment returns what the defaults document
\* holds (None when it holds nothing), never the keychain's value.
C2_NonCredentialSkipsKeychain ==
    (IsLookup /\ ~last.is_credential) =>
        LET kc == KeychainOf(LookupPair)
            d == FileDefault(LookupPair)
        IN  (/\ ~OverrideHas(last.config, last.key)
             /\ EnvOf(LookupPair) = None
             /\ kc # None)
                => /\ last.result = Return(d)
                   /\ kc # d => last.result.value # kc

\* C2 witness: a value only in the keychain of a capable host, and the
\* non-credential lookup returns None.
C2_Witness ==
    /\ IsLookup /\ ~last.is_credential /\ is_macos
    /\ ~OverrideHas(last.config, last.key)
    /\ EnvOf(LookupPair) = None
    /\ KeychainOf(LookupPair) = "kc1"
    /\ FileDefault(LookupPair) = None
    /\ last.result = Return(None)

\* C3: when the override mapping contains the key, the lookup returns the
\* override's value, whatever it is and whatever the other sources hold.
C3_OverridePresenceWins ==
    (IsLookup /\ OverrideHas(last.config, last.key))
        => last.result = Return(last.config[1][last.key])

\* C3 witness: an override of "" returned over a set environment variable,
\* a keychain entry and a defaults value.
C3_Witness ==
    /\ IsLookup /\ last.is_credential /\ is_macos
    /\ OverrideHas(last.config, last.key)
    /\ last.config[1][last.key] = ""
    /\ EnvOf(LookupPair) = "env1"
    /\ KeychainOf(LookupPair) = "kc1"
    /\ FileDefault(LookupPair) = "def1"
    /\ last.result = Return("")

\* C4: an environment variable set to "" and a keychain entry holding ""
\* count as absent: with the key not in the override, the result for an
\* empty variable is the result for an unset one (what the keychain and the
\* defaults give), and an empty keychain entry gives what no entry gives
\* (the defaults value).
C4_EmptyIsAbsent ==
    (IsLookup /\ ~OverrideHas(last.config, last.key)) =>
        LET e == EnvOf(LookupPair)
            kc == KeychainOf(LookupPair)
            d == FileDefault(LookupPair)
        IN  e \in {"", None} =>
                last.result = IF last.is_credential /\ is_macos /\ kc \notin {"", None}
                              THEN Return(kc)
                              ELSE Return(d)

\* C4 witness: an empty variable and an empty keychain entry, and the
\* credential lookup returns the defaults value.
C4_Witness ==
    /\ IsLookup /\ last.is_credential /\ is_macos
    /\ ~OverrideHas(last.config, last.key)
    /\ EnvOf(LookupPair) = ""
    /\ KeychainOf(LookupPair) = ""
    /\ FileDefault(LookupPair) = "def1"
    /\ last.result = Return("def1")

\* C5: get_config_value and the three aggregators return normally whatever
\* config.yaml holds; they never raise.
C5_NeverRaises ==
    (IsLookup \/ IsAggregate) => last.result.kind = "return"

\* The values an aggregator's lookups resolve to, by parameter.
ResolvedValue(i) ==
    get_config_value(last.service, params_of(last.service)[i][1], last.config,
                     params_of(last.service)[i][2]).value

\* C6: the mapping an aggregator returns maps no key to None and holds a
\* parameter exactly when its resolved value is not None (then with that
\* value); the defaults of the end-to-end scenario alone give exactly user,
\* account and warehouse; with only AWS_ACCESS_KEY_ID set the s3 mapping has
\* no aws_secret_access_key and no aws_session_token.
C6_AbsentOmitted ==
    IsAggregate =>
        /\ last.result.kind = "return"
        /\ LET m == last.result.value
               params == params_of(last.service)
           IN  /\ \A k \in DOMAIN m : m[k] # None
               /\ \A i \in DOMAIN params :
                    /\ (params[i][1] \in DOMAIN m) <=> (ResolvedValue(i) # None)
                    /\ params[i][1] \in DOMAIN m => m[params[i][1]] = ResolvedValue(i)
               /\ (/\ last.op = "get_snowflake_config"
                   /\ file = ExampleFile
                   /\ last.config = NoDict
                   /\ \A n \in EnvNames : env[n] = None
                   /\ \A a \in DOMAIN keychain : keychain[a] = None)
                      => DOMAIN m = {"user", "account", "warehouse"}
               /\ (/\ last.op = "get_s3_config"
                   /\ last.config = NoDict
                   /\ NonEmpty(env["AWS_ACCESS_KEY_ID"])
                   /\ \A n \in EnvNames \ {"AWS_ACCESS_KEY_ID"} : env[n] = None
                   /\ \A p \in {<<"s3", "aws_secret_access_key">>, <<"s3", "aws_session_token">>} :
                        KeychainOf(p) = None /\ FileDefault(p) = None)
                      => DOMAIN m \cap {"aws_secret_access_key", "aws_session_token"} = {}

\* C6 witness: the end-to-end scenario's defaults, nothing else set, and the
\* snowflake mapping holds exactly user, account and warehouse.
C6_Witness ==
    /\ last.op = "get_snowflake_config"
    /\ file = ExampleFile
    /\ last.config = NoDict
    /\ \A n \in EnvNames : env[n] = None
    /\ last.result.kind = "return"
    /\ DOMAIN last.result.value = {"user", "account", "warehouse"}

\* C7: get_snowflake_config sets 'user' to the username argument when one
\* is given and to get_current_user() otherwise, whatever the override, the
\* environment, the keychain and the defaults hold for 'user'.
C7_UserDirect ==
    last.op = "get_snowflake_config" =>
        /\ last.result.kind = "return"
        /\ "user" \in DOMAIN last.result.value
        /\ last.result.value["user"] =
              IF last.username # None THEN last.username
              ELSE get_current_user(last.host)

\* C7 witness: no username given, 'user' in the override and SNOWFLAKE_USER
\* set, and the mapping's user is the host's.
C7_Witness ==
    /\ last.op = "get_snowflake_config"
    /\ last.username = None
    /\ last.host.getpass = Return("alice")
    /\ OverrideHas(last.config, "user")
    /\ last.config[1]["user"] = "fn1"
    /\ env["SNOWFLAKE_USER"] = "env1"
    /\ last.result.kind = "return"
    /\ last.result.value["user"] = "alice"

\* The parameters the claim names as read from the keychain, and the others.
CredentialParams ==
    {<<"snowflake", "password">>, <<"snowflake", "private_key_passphrase">>,
     <<"databricks", "access_token">>,
     <<"s3", "aws_access_key_id">>, <<"s3", "aws_secret_access_key">>,
     <<"s3", "aws_session_token">>}

PlainParams ==
    {<<"snowflake", "account">>, <<"snowflake", "warehouse">>,
     <<"snowflake", "database">>, <<"snowflake", "schema">>,
     <<"snowflake", "private_key_path">>, <<"snowflake", "authenticator">>,
     <<"databricks", "server_hostname">>, <<"databricks", "http_path">>,
     <<"databricks", "catalog">>, <<"databricks", "schema">>,
     <<"s3", "region_name">>}

\* A value for the pair is in the keychain and nowhere else.
OnlyInKeychain(p, config) ==
    /\ KeychainOf(p) # None
    /\ ~OverrideHas(config, p[2])
    /\ EnvOf(p) = None
    /\ FileDefault(p) = None

\* C8 as stated: a value only in the keychain appears in the aggregate for
\* the six credential parameters, and never for any other parameter.
C8_Original ==
    IsAggregate =>
        /\ last.result.kind = "return"
        /\ \A p \in {q \in CredentialParams \cup PlainParams : q[1] = last.service} :
              OnlyInKeychain(p, last.config) =>
                 IF p \in CredentialParams
                 THEN /\ p[2] \in DOMAIN last.result.value
                      /\ last.result.value[p[2]] = KeychainOf(p)
                 ELSE p[2] \notin DOMAIN last.result.value

\* C8 amended: on a host where the keychain is available, a non-empty value
\* only in the keychain appears in the aggregate for the six credential
\* parameters; on every host it never appears for any other parameter.
C8_KeychainParams ==
    IsAggregate =>
        /\ last.result.kind = "return"
        /\ \A p \in {q \in CredentialParams \cup PlainParams : q[1] = last.service} :
              OnlyInKeychain(p, last.config) =>
                 IF p \in CredentialParams
                 THEN (is_macos /\ KeychainOf(p) # "") =>
                         /\ p[2] \in DOMAIN last.result.value
                         /\ last.result.value[p[2]] = KeychainOf(p)
                 ELSE p[2] \notin DOMAIN last.result.value

\* C8 witness: databricks access_token only in the keychain of a capable
\* host, and the aggregate holds it.
C8_Witness ==
    /\ last.op = "get_databricks_config"
    /\ is_macos
    /\ OnlyInKeychain(<<"databricks", "access_token">>, last.config)
    /\ KeychainOf(<<"databricks", "access_token">>) = "kc1"
    /\ last.result.kind = "return"
    /\ "access_token" \in DOMAIN last.result.value
    /\ last.result.value["access_token"] = "kc1"

\* The keychain entry a credential call names.
EntryOf(key) == <<service_name, Lower(key)>>

C9_Step ==
    /\ last'.op = "set_credential" =>
         IF is_macos
         THEN /\ last'.result = Return(None)
              /\ keychain' = [keychain EXCEPT ![EntryOf(last'.key)] = last'.value]
         ELSE /\ last'.result = Raise("RuntimeError")
              /\ keychain' = keychain
    /\ last'.op = "delete_credential" =>
         IF is_macos
         THEN /\ keychain' = [keychain EXCEPT ![EntryOf(last'.key)] = None]
              /\ keychain[EntryOf(last'.key)] # None => last'.result = Return(None)
         ELSE /\ last'.result = Raise("RuntimeError")
              /\ keychain' = keychain

\* C9: off macOS, set_credential and delete_credential of both managers
\* raise RuntimeError and leave the keychain as it was; on macOS they write,
\* or delete, exactly the entry (service_name, key.lower()).
C9_CapabilityGate == [][C9_Step]_vars

\* C9 witness: CredentialManager.delete_credential off macOS raised
\* RuntimeError and the entry it named is still there.
C9_Witness ==
    /\ last.op = "delete_credential"
    /\ last.manager = "CredentialManager"
    /\ ~is_macos
    /\ last.result = Raise("RuntimeError")
    /\ keychain[EntryOf(last.key)] = "kc1"

C10_Step ==
    (/\ is_macos
     /\ last'.op = "get_config_value"
     /\ last'.is_credential
     /\ ~OverrideHas(last'.config, last'.key)
     /\ EnvOf(<<last'.service, last'.key>>) = None) =>
        /\ (/\ last.op = "set_credential"
            /\ last.key \in Spellings(<<last'.service, last'.key>>)
            /\ last.value # "")
                => last'.result = Return(last.value)
        /\ (/\ last.op = "delete_credential"
            /\ last.key \in Spellings(<<last'.service, last'.key>>))
                => last'.result = Return(FileDefault(<<last'.service, last'.key>>))

\* C10: on macOS, a credential lookup that follows set_credential(E, v),
\* v non-empty and E in any letter case, returns v when E is unset in the
\* environment and the key is not in the override; one that follows
\* delete_credential(E) returns the defaults value or None.
C10_RoundTrip == [][C10_Step]_vars

\* C10 witness: set_credential under a mixed-case spelling has stored a
\* non-empty value where the lookup reads, with the variable unset.
C10_Witness ==
    /\ last.op = "set_credential"
    /\ is_macos
    /\ last.key = "Snowflake_Password"
    /\ last.value = "kc1"
    /\ last.result = Return(None)
    /\ EnvOf(<<"snowflake", "password">>) = None
    /\ KeychainOf(<<"snowflake", "password">>) = "kc1"

\* C11: when the keychain read raises, or the host is not macOS, a
\* credential lookup of get_config_value whose key is neither in the
\* override nor set in the environment returns the defaults value (or None),
\* and CredentialManager.get_credential with its variable unset returns
\* None; neither raises.
C11_KeychainFailureIsAbsence ==
    (keyring_raises \/ ~is_macos) =>
        /\ (IsLookup /\ last.is_credential) =>
              /\ last.result.kind = "return"
              /\ (/\ ~OverrideHas(last.config, last.key)
                  /\ ~NonEmpty(EnvOf(LookupPair)))
                     => last.result = Return(FileDefault(LookupPair))
        /\ last.op = "get_credential" =>
              /\ last.result.kind = "return"
              /\ ~NonEmpty(env[Upper(last.key)]) => last.result = Return(None)

\* C11 witness: on macOS the read raises over an entry that is there, and
\* the credential lookup returns the defaults value.
C11_Witness ==
    /\ keyring_raises /\ is_macos
    /\ IsLookup /\ last.is_credential
    /\ ~OverrideHas(last.config, last.key)
    /\ EnvOf(LookupPair) = None
    /\ KeychainOf(LookupPair) = "kc1"
    /\ FileDefault(LookupPair) = "def1"
    /\ last.result = Return("def1")

\* C12: loading from a path where nothing is gives {} without raising and
\* without a warning, and loading a document that fails to parse gives {}
\* without raising and with exactly one warning, for config_helper.load_config
\* and for ConfigManager._load_default_config alike.
C12_LoaderResilience ==
    last.op \in {"load_config", "_load_default_config"} =>
        /\ last.result.kind = "return"
        /\ last.target.state = "missing" =>
              last.result.value = YamlMap(EmptyDict) /\ last.warned = 0
        /\ last.target.state = "unparsable" =>
              last.result.value = YamlMap(EmptyDict) /\ last.warned = 1

\* What a loaded document holds at a pair (None when nothing).
DocValueAt(node, p) ==
    IF /\ node.t = "map"
       /\ p[1] \in DOMAIN node.m
       /\ node.m[p[1]].t = "map"
       /\ p[2] \in DOMAIN node.m[p[1]].m
    THEN node.m[p[1]].m[p[2]]
    ELSE None

\* The lookup made in this step gets past the override, the environment
\* and the keychain.
ReachesDefaults ==
    /\ last'.op = "get_config_value"
    /\ ~OverrideHas(last'.config, last'.key)
    /\ ~NonEmpty(EnvOf(<<last'.service, last'.key>>))
    /\ ~(last'.is_credential /\ is_macos
            /\ NonEmpty(KeychainOf(<<last'.service, last'.key>>)))

C13_Step ==
    /\ last'.op = "get_config_value" =>
          /\ others' = others
          /\ default_config # NoDict =>
                /\ default_config' = default_config
                /\ ReachesDefaults =>
                      last'.result =
                          Return(DocValueAt(default_config[1], <<last'.service, last'.key>>))
          /\ default_config = NoDict =>
                IF ReachesDefaults
                THEN /\ default_config' # NoDict
                     /\ default_config'[1] =
                           (IF file.state = "ok" /\ file.content.t = "map"
                            THEN file.content ELSE YamlMap(EmptyDict))
                     /\ last'.result =
                           Return(DocValueAt(default_config'[1], <<last'.service, last'.key>>))
                ELSE default_config' = NoDict
    /\ last'.op = "write config.yaml" =>
          default_config' = default_config /\ others' = others
    /\ last'.op = "ConfigManager" =>
          default_config' = NoDict /\ others' = Append(others, default_config)

\* C13: a ConfigManager loads config.yaml on its first lookup that reaches
\* the defaults tier and never again: later lookups answer from the cached
\* content whatever config.yaml has become (an empty or failed load is
\* cached as {}), a write to config.yaml changes no cache, a new
\* ConfigManager starts with no cache and loads the file as it then is, and
\* a lookup on one instance leaves the caches of the others alone.
C13_LoadedOncePerInstance == [][C13_Step]_vars

\* C13 witness: config.yaml is gone, the instance in use still answers
\* "def1" from its cache, and another instance holds a different cache.
C13_Witness ==
    /\ IsLookup
    /\ file = Missing
    /\ default_config # NoDict
    /\ DocValueAt(default_config[1], LookupPair) = "def1"
    /\ last.result = Return("def1")
    /\ Len(others) = 1
    /\ others[1] # NoDict
    /\ others[1] # default_config

\* What config.yaml holds at a pushable pair (None when nothing).
PushDefault(p) == IF InFile(p) THEN file.content.m[p[1]].m[p[2]] ELSE None

\* The string form of a value of config.yaml.
StringForm(v) ==
    CASE v = PyInt(0) -> "0"
      [] v = PyInt(8080) -> "8080"
      [] OTHER -> v

\* The variables whose value differs across the step.
Changed == {n \in EnvNames : env'[n] # env[n]}

C14_Step ==
    (last'.op = "push_config_to_env" /\ ~last'.override) =>
        \A n \in Changed :
            /\ env[n] = None
            /\ n \in {PushNameOf(p) : p \in PushablePairs}

\* The call made once more, right after a call without override.
C14_SecondCall ==
    (last.op = "push_config_to_env" /\ ~last.override) =>
        LET second == push_config_to_env(file, FALSE)
        IN  /\ second.env = env
            /\ second.result = Return(EmptyDict)

\* C14: push_config_to_env without override writes only pushable variables
\* that are not in the environment, leaves every variable that is there as
\* it is, and called a second time in a row changes no variable and returns
\* {}.
C14_PushIdempotent == [][C14_Step]_vars /\ []C14_SecondCall

\* The pushable pairs config.yaml gives a value (not null) to.
DefinedPushable == {p \in PushablePairs : PushDefault(p) # None}

\* Every default config.yaml defines is one the push writes (not "", not 0).
DefinedAreTruthy ==
    \A p \in DefinedPushable : PushDefault(p) \notin {"", PyInt(0)}

C15_Step ==
    (last'.op = "push_config_to_env" /\ last'.override /\ DefinedAreTruthy) =>
        /\ last'.result.kind = "return"
        /\ \A p \in DefinedPushable :
              env'[PushNameOf(p)] = StringForm(PushDefault(p))
        /\ DOMAIN last'.result.value = {PushNameOf(p) : p \in DefinedPushable}

\* C15: on a config.yaml whose pushable defaults are all non-empty, after
\* push_config_to_env(override=true) every pushable variable config.yaml
\* defines equals the string form of its default, whatever it held before,
\* and the returned mapping lists exactly the variables written.
C15_OverrideOverwrites == [][C15_Step]_vars

C16_Step ==
    last'.op \in {"_auto_load_config", "quick_config.load_config"} =>
        /\ last'.result = Return(None)
        /\ IF NonEmpty(env[DisableName])
           THEN env' = env
           ELSE env' = push_config_to_env(file, FALSE).env

\* C16: _auto_load_config and quick_config.load_config return normally in
\* every case; with CLOUDCONDUIT_DISABLE_AUTO_CONFIG non-empty they leave
\* the environment as it is, otherwise the environment is what
\* push_config_to_env() makes of it, also when that call raises.
C16_AutoLoadGated == [][C16_Step]_vars

\* C16 witness: the push raises on config.yaml (a service entry that is no
\* mapping), the auto-load is not disabled and has returned normally.
C16_Witness ==
    /\ last.op = "_auto_load_config"
    /\ last.result = Return(None)
    /\ ~NonEmpty(env[DisableName])
    /\ file \in BrokenServiceFiles
    /\ push_config_to_env(file, FALSE).result = Raise("AttributeError")

\* The required parameters a resolved configuration lacks (absent or empty).
MissingOf(required, config) ==
    {k \in required : k \notin DOMAIN config \/ ~NonEmpty(config[k])}

\* The parameters each validation requires.
RequiredBy ==
    [op \in {"SnowflakeConnector", "DatabricksConnector.connect"} |->
        IF op = "SnowflakeConnector" THEN {"account", "warehouse"}
        ELSE {"server_hostname", "http_path", "access_token"}]

\* C17: when required parameters are missing, SnowflakeConnector(...) and
\* DatabricksConnector.connect() raise one error whose message names every
\* missing parameter, attempt no vendor connection and leave no connection.
C17_AllMissingNamed ==
    (/\ last.op \in DOMAIN RequiredBy
     /\ connector.kind = "none" \/ connector.connection = None
     /\ MissingOf(RequiredBy[last.op], last.config) # {}) =>
        /\ last.result.kind = "raise"
        /\ last.named = MissingOf(RequiredBy[last.op], last.config)
        /\ last.attempts = 0
        /\ connector.kind # "none" => connector.connection = None

\* The first non-empty value in the order getpass.getuser(), os.getlogin(),
\* USER, USERNAME, LOGNAME, else the sentinel.
FirstNonEmptyUser(host) ==
    IF host.getpass.kind = "return" /\ host.getpass.value # "" THEN host.getpass.value
    ELSE IF host.getlogin.kind = "return" /\ host.getlogin.value # ""
         THEN host.getlogin.value
    ELSE IF NonEmpty(env["USER"]) THEN env["USER"]
    ELSE IF NonEmpty(env["USERNAME"]) THEN env["USERNAME"]
    ELSE IF NonEmpty(env["LOGNAME"]) THEN env["LOGNAME"]
    ELSE "unknown_user"

\* C18: get_current_user returns, without raising, the first non-empty
\* value of getpass.getuser(), os.getlogin(), USER, USERNAME, LOGNAME, and
\* "unknown_user" when there is none; the result is never "".
C18_FirstNonEmptyUser ==
    last.op = "get_current_user" =>
        /\ last.result = Return(FirstNonEmptyUser(last.host))
        /\ last.result.value # ""

\* The names the claim spells out for s3.
S3Names ==
    [aws_access_key_id |-> "AWS_ACCESS_KEY_ID",
     aws_secret_access_key |-> "AWS_SECRET_ACCESS_KEY",
     aws_session_token |-> "AWS_SESSION_TOKEN",
     region_name |-> "AWS_DEFAULT_REGION"]

\* C19: the variable name of a (service, key) is the table's entry for a
\* mapped pair (for s3 the four AWS names, region_name going to
\* AWS_DEFAULT_REGION) and upper(service) + "_" + upper(key) for any other
\* pair, the pairs of an unknown service included; it is a function of
\* (service, key) alone.
C19_EnvKeyTable ==
    last.op = "_get_env_key" =>
        /\ last.result =
              Return(IF last.service = "s3" /\ last.key \in DOMAIN S3Names
                     THEN S3Names[last.key]
                     ELSE Upper(last.service) \o "_" \o Upper(last.key))
        /\ <<last.service, last.key>> \in MappedPairs =>
              last.result = Return(env_mappings[last.service][last.key])

\* C19 witness: the pair of an unknown service got the synthesized name,
\* with the environment not empty.
C19_Witness ==
    /\ last.op = "_get_env_key"
    /\ last.service = "gcs" /\ last.key = "bucket"
    /\ last.result = Return("GCS_BUCKET")
    /\ env["USER"] = "dave"

\* The three credential parameters of S3, and the region.
S3CredentialKeys == {"aws_access_key_id", "aws_secret_access_key", "aws_session_token"}
Region == <<"s3", "region_name">>

\* What the tiered resolver gives for a key when called without override
\* (None when it omits the key).
TieredOrNone(k) ==
    LET tiered == get_s3_config(NoDict).value
    IN  IF k \in DOMAIN tiered THEN tiered[k] ELSE None

\* The region halves of the claim: the simple resolver's fallback, and the
\* tiered resolver's region_name coming from the override or config.yaml only.
RegionFallbackOnlySimple ==
    /\ (/\ last.op = "get_s3_credentials"
        /\ EnvOf(Region) = None
        /\ KeychainOf(Region) = None)
          => last.result.value["region_name"] = "us-east-1"
    /\ (last.op = "get_s3_config" /\ EnvOf(Region) = None) =>
          /\ last.result.kind = "return"
          /\ ("region_name" \in DOMAIN last.result.value) <=>
                \/ (OverrideHas(last.config, "region_name")
                       /\ last.config[1]["region_name"] # None)
                \/ (~OverrideHas(last.config, "region_name")
                       /\ FileDefault(Region) # None)
          /\ "region_name" \in DOMAIN last.result.value =>
                last.result.value["region_name"] =
                    IF OverrideHas(last.config, "region_name")
                    THEN last.config[1]["region_name"] ELSE FileDefault(Region)

\* C20 as stated: the two S3 resolvers differ only in the region fallback;
\* on the same state they give the same three credential parameters (a
\* parameter the tiered resolver omits being None in the simple one).
C20_Original ==
    /\ RegionFallbackOnlySimple
    /\ last.op = "get_s3_credentials" =>
          \A k \in S3CredentialKeys : last.result.value[k] = TieredOrNone(k)

\* C20 amended: with AWS_DEFAULT_REGION unset and no region in the keychain
\* the simple resolver returns region_name "us-east-1", while the tiered one
\* has a region_name only when the override or config.yaml supplies it; on
\* the three credential parameters the two agree (None in the simple one
\* where the tiered one omits the key) when config.yaml holds nothing for
\* the parameter and its keychain entry is not the empty string.
C20_RegionFallback ==
    /\ RegionFallbackOnlySimple
    /\ last.op = "get_s3_credentials" =>
          \A k \in S3CredentialKeys :
              (/\ FileDefault(<<"s3", k>>) = None
               /\ KeychainOf(<<"s3", k>>) # "")
                  => last.result.value[k] = TieredOrNone(k)

\* C20 witness: the region only in config.yaml; the simple resolver says
\* "us-east-1", the tiered one the default.
C20_Witness ==
    /\ last.op = "get_s3_credentials"
    /\ EnvOf(Region) = None
    /\ KeychainOf(Region) = None
    /\ FileDefault(Region) = "def1"
    /\ last.result.value["region_name"] = "us-east-1"
    /\ TieredOrNone("region_name") = "def1"

(* ------------------------------------------------ connectors in use *)

\* The connectors over a SQL driver, and the names their connect() has in
\* `last`.
SQLKinds == {"snowflake", "databricks"}
ConnectOps ==
    {"SnowflakeConnector.connect", "DatabricksConnector.connect", "S3Connector.connect"}

\* The connection a connector holds is one the vendor handed out and nobody
\* closed; every other connection handed out was closed exactly once.
HeldIsOpen ==
    /\ is_connected(connector) <=>
          \E i \in DOMAIN closes : connector.connection = i /\ closes[i] = 0
    /\ \A i \in DOMAIN closes : i # connector.connection => closes[i] = 1

C21_Step ==
    connector.kind \in SQLKinds =>
        /\ HeldIsOpen /\ HeldIsOpen'
        \* the vendor connect is invoked only when no connection is held
        /\ vendor_connects' # vendor_connects =>
              ~is_connected(connector) /\ vendor_connects' = vendor_connects + 1
        \* connect while connected is a no-op
        /\ (last'.op \in ConnectOps /\ is_connected(connector)) =>
              /\ connector' = connector
              /\ closes' = closes
              /\ last'.result = Return(None)
        \* execute while disconnected connects first
        /\ (last'.op = "execute" /\ ~is_connected(connector)) =>
              /\ last'.connected
              /\ last'.issued # <<>> =>
                    /\ last'.attempts = 1
                    /\ last'.on = connector'.connection
                    /\ last'.on \notin DOMAIN closes
        /\ (last'.op = "execute" /\ is_connected(connector)) =>
              /\ ~last'.connected
              /\ last'.on = connector.connection
              /\ connector' = connector
        \* disconnect closes the held connection once and clears it
        /\ (last'.op = "disconnect" /\ is_connected(connector)) =>
              /\ closes' = [closes EXCEPT ![connector.connection] = 1]
              /\ ~is_connected(connector')
        /\ (last'.op = "disconnect" /\ ~is_connected(connector)) =>
              /\ connector' = connector
              /\ closes' = closes

\* C21: on a Snowflake or Databricks connector, under every sequence of
\* connect, disconnect, execute and with-blocks: is_connected holds exactly
\* when an open vendor connection is held; connect while connected changes
\* nothing; execute while disconnected connects first; the vendor connect is
\* invoked only when nothing is held; disconnect closes the held connection
\* exactly once and clears it, and does nothing when nothing is held.
C21_Lifecycle == [][C21_Step]_vars

\* C21 witness: a connection was closed by disconnect, and an execute then
\* connected again and ran its statement on the second connection.
C21_Witness ==
    /\ connector.kind \in SQLKinds
    /\ last.op = "execute"
    /\ last.connected
    /\ last.result = Return("rows")
    /\ DOMAIN closes = {Connection(1), Connection(2)}
    /\ closes[Connection(1)] = 1
    /\ connector.connection = Connection(2)

\* What the two ends of a with statement leave behind: __enter__ that
\* returned leaves a connection held, made by one vendor connect when none
\* was held before; __exit__ leaves nothing held, whatever the body did in
\* between and however it ended.
WithBlockLeaves ==
    /\ (last.op = "__enter__" /\ last.result.kind = "return") =>
          /\ is_connected(connector)
          /\ with_entered # NotEntered
          /\ last.attempts = IF last.held = None THEN 1 ELSE 0
    /\ last.op = "__exit__" =>
          /\ ~is_connected(connector)
          /\ with_entered = NotEntered
          /\ last.entry.connection \in DOMAIN closes
          /\ last.held # None => last.held \in DOMAIN closes

\* C22 as stated: after a with-block on any connector, however its body
\* ended, is_connected is false and the vendor connection has been closed
\* exactly once.
C22_Original ==
    /\ WithBlockLeaves
    /\ last.op = "__exit__" => closes[last.entry.connection] = 1

\* C22 amended: a with-block connects on entry and disconnects on exit,
\* however its body ended, so that is_connected is false afterwards; every
\* connection a Snowflake or Databricks connector held in the block, the
\* one of the entry included, has then been closed exactly once, while an
\* S3 connector drops its client without closing it.
C22_ContextManager ==
    /\ WithBlockLeaves
    /\ last.op = "__exit__" =>
          \A c \in {last.entry.connection, last.held} \ {None} :
              closes[c] = IF last.kind \in SQLKinds THEN 1 ELSE 0

\* C22 witness: a with-block on a Snowflake connector that connected on
\* entry, whose body disconnected, connected again and raised.
C22_Witness ==
    /\ last.op = "__exit__"
    /\ last.kind = "snowflake"
    /\ last.entry.held = None
    /\ last.held \notin {None, last.entry.connection}
    /\ last.result = Raise("BodyError")
    /\ closes[last.entry.connection] = 1
    /\ closes[last.held] = 1
    /\ ~is_connected(connector)

\* C26: whenever connect raises ConnectionError, is_connected is false
\* afterwards, for each of the three connectors.
C26_FailedConnectDisconnected ==
    (last.op \in ConnectOps /\ last.result = Raise("ConnectionError")) =>
        ~is_connected(connector)

\* The connectors of a kind constructed so far.
ConstructedOf(kind) == {j \in DOMAIN conduit.constructed : conduit.constructed[j].kind = kind}

C23_Step ==
    \A kind \in Backends :
        LET slot == "_" \o kind
        IN  /\ Cardinality(ConstructedOf(kind)) <= 1
            /\ Cardinality(ConstructedOf(kind))' <= 1
            \* a stored connector stays, and is what every later call returns
            /\ conduit[slot] # None =>
                  /\ conduit'[slot] = conduit[slot]
                  /\ last'.op = "CloudConduit." \o kind =>
                        /\ last'.result = Return(conduit[slot])
                        /\ conduit' = conduit
            \* the first call constructs and stores, unless the constructor raises
            /\ (conduit[slot] = None /\ last'.op = "CloudConduit." \o kind) =>
                  \/ /\ last'.result.kind = "return"
                     /\ conduit'[slot] = last'.result.value
                     /\ conduit'.constructed =
                           Append(conduit.constructed,
                                  construct(kind, last'.username, last'.config,
                                            HostNotAsked).value)
                  \/ /\ last'.result.kind = "raise"
                     /\ conduit' = conduit

\* C23: a CloudConduit constructs at most one connector per backend: the
\* first accessor call constructs and stores it, every later call for the
\* backend returns that instance and constructs nothing, whatever username or
\* config it passes.
C23_OneConnectorPerBackend == [][C23_Step]_vars

\* C23 witness: snowflake() called again with another username and config
\* returned the connector the first call had constructed.
C23_Witness ==
    /\ last.op = "CloudConduit.snowflake"
    /\ conduit._snowflake # None
    /\ last.result = Return(conduit._snowflake)
    /\ \E j \in ConstructedOf("snowflake") :
          /\ conduit.constructed[j].username # last.username
          /\ conduit.constructed[j].override # last.config

\* What get_credential gives for a parameter's variable.
CredentialOf(p) == CredentialManager_get_credential(EnvKeyOf(p)).value
SnowflakeCredentialKeys ==
    {"account", "warehouse", "database", "schema", "password", "private_key_path",
     "private_key_passphrase", "authenticator"}

\* C24: get_snowflake_credentials never returns both password and
\* private_key_path; when a password resolves, private_key_path and
\* private_key_passphrase are omitted; private_key_passphrase appears only
\* together with private_key_path; 'user' is always present; a parameter
\* whose lookup gives None is omitted, and no key maps to None.
C24_OneAuthMethod ==
    last.op = "get_snowflake_credentials" =>
        LET r == last.result.value
        IN  /\ ~({"password", "private_key_path"} \subseteq DOMAIN r)
            /\ Truthy(CredentialOf(<<"snowflake", "password">>)) =>
                  /\ r["password"] = CredentialOf(<<"snowflake", "password">>)
                  /\ "private_key_path" \notin DOMAIN r
                  /\ "private_key_passphrase" \notin DOMAIN r
            /\ "private_key_passphrase" \in DOMAIN r => "private_key_path" \in DOMAIN r
            /\ "user" \in DOMAIN r
            /\ DOMAIN r \subseteq SnowflakeCredentialKeys \cup {"user"}
            /\ \A k \in SnowflakeCredentialKeys :
                  CredentialOf(<<"snowflake", k>>) = None => k \notin DOMAIN r
            /\ \A k \in DOMAIN r : r[k] # None

\* C24 witness: a password and a private key path both resolve, and only the
\* password is returned.
C24_Witness ==
    /\ last.op = "get_snowflake_credentials"
    /\ Truthy(CredentialOf(<<"snowflake", "password">>))
    /\ Truthy(CredentialOf(<<"snowflake", "private_key_path">>))
    /\ Truthy(CredentialOf(<<"snowflake", "private_key_passphrase">>))
    /\ "password" \in DOMAIN last.result.value
    /\ "private_key_path" \notin DOMAIN last.result.value

\* The positions of the statements of one verb among those a call has sent.
Positions(issued, verb) == {i \in DOMAIN issued : issued[i].verb = verb}

\* C25: after copy_table on a SQL connector, whatever the target name: with
\* if_exists="replace" every CREATE is preceded by the DROP of the target;
\* with if_exists="fail" and the target existing the call raises, as
\* RuntimeError once a statement could be sent, and no CREATE was sent.
C25_CopyTableModes ==
    last.op = "copy_table" =>
        LET creates == Positions(last.issued, "CREATE TABLE AS SELECT")
        IN  /\ last.if_exists = "replace" =>
                  \A i \in creates :
                      \E j \in 1..(i - 1) : last.issued[j] = drop_query(last.target)
            /\ (last.if_exists = "fail" /\ last.existed) =>
                  /\ last.result.kind = "raise"
                  /\ last.issued # <<>> => last.result = Raise("RuntimeError")
                  /\ creates = {}

\* The rows of a sequence of INSERT statements, in the order sent.
RECURSIVE RowsOf(_)
RowsOf(inserts) ==
    IF inserts = <<>> THEN <<>> ELSE Head(inserts).rows \o RowsOf(Tail(inserts))

IsInsert(q) == q.verb = "INSERT INTO"

\* C30: after DatabricksConnector.upload_df with batch_size >= 1: every
\* INSERT follows the CREATE TABLE IF NOT EXISTS of its table and carries
\* between 1 and batch_size rows, the rows sent are the DataFrame's first
\* rows once each in order, all of them in ceil(n / batch_size) statements
\* when the call returns, none for an empty DataFrame; with if_exists="fail"
\* and the table existing the call raises, as RuntimeError once a statement
\* could be sent, before any CREATE or INSERT.
C30_UploadBatches ==
    (last.op = "upload_df" /\ last.batch_size >= 1) =>
        LET inserts == SelectSeq(last.issued, IsInsert)
            sent == RowsOf(inserts)
        IN  /\ \A i \in Positions(last.issued, "INSERT INTO") :
                  \E j \in 1..(i - 1) :
                      last.issued[j] = create_query(last.issued[i].table)
            /\ \A k \in DOMAIN inserts :
                  Len(inserts[k].rows) \in 1..last.batch_size
            /\ Len(sent) <= last.rows
            /\ sent = [i \in 1..Len(sent) |-> i]
            /\ last.result.kind = "return" =>
                  /\ Len(sent) = last.rows
                  /\ Len(inserts) = (last.rows + last.batch_size - 1) \div last.batch_size
            /\ last.rows = 0 => inserts = <<>>
            /\ (last.if_exists = "fail" /\ last.existed) =>
                  /\ last.result.kind = "raise"
                  /\ last.issued # <<>> => last.result = Raise("RuntimeError")
                  /\ Positions(last.issued, "CREATE TABLE IF NOT EXISTS") = {}
                  /\ inserts = <<>>

\* Three rows uploaded in batches of two: two INSERT statements.
C30_Witness ==
    /\ last.op = "upload_df"
    /\ last.rows = 3
    /\ last.batch_size = 2
    /\ last.result.kind = "return"
    /\ Len(SelectSeq(last.issued, IsInsert)) = 2

\* The override mappings the aggregators are compared under: none, the
\* pushable keys of the service all given as null, and all given values.
PushOverrides(service) ==
    LET keys == {p[2] : p \in {q \in PushablePairs : q[1] = service}}
    IN  {NoDict, Some([k \in keys |-> None]), Some([k \in keys |-> "fn1"])}

\* A host whose getpass.getuser() answers.
Hosts_alice == [getpass |-> Return("alice"), getlogin |-> Return("alice")]

\* config.yaml holds no integer at a pushable key: strings or nothing.
StringDefaults == \A p \in PushablePairs : PushDefault(p) \notin {PyInt(n) : n \in IntValues}

\* What the aggregators read: the environment, the secret store, config.yaml
\* and the cached defaults.
AggregatorInputs == <<env, keychain, file, default_config, is_macos, keyring_raises>>

\* Whether each aggregator returns after the step what it returned before.
AggregatesKept ==
    \/ AggregatorInputs' = AggregatorInputs
    \/ /\ get_snowflake_config(None, NoDict, Hosts_alice)' =
              get_snowflake_config(None, NoDict, Hosts_alice)
       /\ \A config \in PushOverrides("snowflake") :
             get_snowflake_config("carol", config, HostNotAsked)' =
                 get_snowflake_config("carol", config, HostNotAsked)
       /\ \A config \in PushOverrides("databricks") :
             get_databricks_config(config)' = get_databricks_config(config)
       /\ \A config \in PushOverrides("s3") :
             get_s3_config(config)' = get_s3_config(config)

C27_OriginalStep ==
    (last'.op = "push_config_to_env" /\ ~last'.override /\ StringDefaults) =>
        AggregatesKept

\* C27 as stated: a push_config_to_env without override, over a config.yaml
\* whose pushable values are strings, leaves what get_snowflake_config,
\* get_databricks_config and get_s3_config return as it was, under every
\* override mapping and from every environment.
C27_Original == [][C27_OriginalStep]_vars

\* The ConfigManager has cached no defaults, or the document config.yaml
\* holds now.
CacheCurrent == default_config = NoDict \/ default_config[1] = load_from_disk

C27_Step ==
    (/\ last'.op = "push_config_to_env" /\ ~last'.override
     /\ StringDefaults
     /\ CacheCurrent) =>
        AggregatesKept

\* C27: a push_config_to_env without override, over a config.yaml whose
\* pushable values are strings, leaves what get_snowflake_config,
\* get_databricks_config and get_s3_config of a ConfigManager return as it
\* was, under every override mapping and from every environment, when the
\* manager's cached defaults are not older than the config.yaml pushed from.
C27_PushKeepsAggregates == [][C27_Step]_vars

\* C27 witness: a push without override has written the default account to
\* SNOWFLAKE_ACCOUNT, which get_snowflake_config now answers from the
\* environment.
C27_Witness ==
    /\ last.op = "push_config_to_env" /\ ~last.override
    /\ StringDefaults
    /\ last.result.kind = "return"
    /\ "SNOWFLAKE_ACCOUNT" \in DOMAIN last.result.value
    /\ tier_of("snowflake", "account", NoDict, FALSE) = "env"
    /\ get_snowflake_config("carol", NoDict, HostNotAsked).value.account =
           PushDefault(<<"snowflake", "account">>)

\* The keys an aggregator may return: the backend's parameter list, and
\* 'user' for snowflake.
ParamKeys(service) ==
    {params_of(service)[i][1] : i \in DOMAIN params_of(service)} \cup
    (IF service = "snowflake" THEN {"user"} ELSE {})

\* The keys of an override mapping.
GivenKeys(config) == IF config = NoDict THEN {} ELSE DOMAIN config[1]

\* C28: the configuration an aggregator has resolved for a connector, and
\* the parameters a vendor connect was called with, have keys only from the
\* backend's parameter list; a key of the override mapping outside the list
\* (snowflake 'role') is in neither.
C28_OnlyListedKeys ==
    /\ connector.kind # "none" =>
          DOMAIN connector.config \subseteq ParamKeys(connector.kind)
    /\ last.op = "SnowflakeConnector" =>
          /\ last.result.kind = "return" =>
                DOMAIN last.config \subseteq ParamKeys("snowflake")
          /\ \A k \in GivenKeys(last.given) \ ParamKeys("snowflake") :
                k \notin DOMAIN last.config
    /\ last.op \in {"DatabricksConnector", "S3Connector"} =>
          \A k \in GivenKeys(last.given) \ ParamKeys(connector.kind) :
              k \notin DOMAIN connector.config
    /\ last.op \in ConnectOps =>
          /\ DOMAIN last.params \subseteq ParamKeys(connector.kind)
          /\ "role" \notin DOMAIN last.params

\* C28 witness: a SnowflakeConnector constructed with an override naming a
\* role holds a configuration with the override's account and no role.
C28_Witness ==
    /\ last.op = "SnowflakeConnector"
    /\ last.result.kind = "return"
    /\ "role" \in GivenKeys(last.given)
    /\ connector.kind = "snowflake"
    /\ connector.config.account = last.given[1].account
    /\ "role" \notin DOMAIN connector.config

\* The keys an override mapping gives as null.
NullKeys(config) ==
    IF config = NoDict THEN {} ELSE {k \in DOMAIN config[1] : config[1][k] = None}

AggregatorOps == {"get_snowflake_config", "get_databricks_config", "get_s3_config"}

\* A lookup of a key the override gives as null returns null and leaves the
\* defaults unloaded.
NullOverrideLookup ==
    (last'.op = "get_config_value" /\ last'.key \in NullKeys(last'.config)) =>
        /\ last'.result = Return(None)
        /\ default_config' = default_config

C29_OriginalStep ==
    /\ NullOverrideLookup
    /\ (last'.op \in AggregatorOps /\ last'.result.kind = "return") =>
          \A k \in NullKeys(last'.config) : k \notin DOMAIN last'.result.value

\* C29 as stated: a key the override gives as null is looked up as null
\* without the lower tiers, and is in no aggregator's result.
C29_Original == [][C29_OriginalStep]_vars

C29_Step ==
    /\ NullOverrideLookup
    /\ (last'.op \in AggregatorOps /\ last'.result.kind = "return") =>
          /\ \A k \in NullKeys(last'.config) :
                k \in DOMAIN last'.result.value =>
                    last'.op = "get_snowflake_config" /\ k = "user"
          /\ last'.op = "get_snowflake_config" =>
                "user" \in DOMAIN last'.result.value

\* C29: a key the override gives as null is looked up as null without the
\* lower tiers, and is in no aggregator's result, except snowflake's
\* 'user', which the result holds whatever the override says of it.
C29_NullOverrideOmitted == [][C29_Step]_vars

\* C29 witness: get_snowflake_config under an override giving the account as
\* null, with SNOWFLAKE_ACCOUNT set: no account in the result.
C29_Witness ==
    /\ last.op = "get_snowflake_config"
    /\ last.config = Some("account" :> None)
    /\ Truthy(env["SNOWFLAKE_ACCOUNT"])
    /\ last.result.kind = "return"
    /\ "account" \notin DOMAIN last.result.value

====
